---- MODULE Spec2Model ----
(***************************************************************************)
(* GitHub commit-diff lesson generator: the App gate, the repository       *)
(* intake (RepositoryAnalyzer), the mock commit / file generators, the     *)
(* CodeViewer, the Lesson Panel and the persistence gateway they talk to.  *)
(*                                                                         *)
(* Text is a sequence of one-character strings (a fixed run of text that   *)
(* no code looks inside is kept as one element).  Math.random() is a       *)
(* pseudo random generator: a seed fixed at page load and a position       *)
(* advanced by every draw; a draw r in [0,1) is the integer r * RandScale. *)
(* Date.now() is the variable now, in milliseconds since page load.  An    *)
(* awaited gateway call resumes RoundTripMs or more after it was issued.   *)
(* A run of an async handler whose component has left the screen goes on,  *)
(* and its setState calls do nothing: such a run is no longer "live".      *)
(***************************************************************************)
EXTENDS Integers, Sequences, FiniteSets, TLC

VARIABLES
  user,            \* App: user
  appLoading,      \* App: loading
  repository,      \* App: repository
  commits,         \* App: commits
  selectedCommit,  \* App: selectedCommit
  commitLoads,     \* in-flight loadCommits calls (commits.list pending)
  selects,         \* number of timeline clicks so far
  url,             \* RepositoryAnalyzer: url
  analyzing,       \* RepositoryAnalyzer: analyzing
  progress,        \* RepositoryAnalyzer: progress
  currentStep,     \* RepositoryAnalyzer: currentStep
  error,           \* RepositoryAnalyzer: error
  intakes,         \* the runs of analyzeRepository that got past the URL check
  lesson,          \* LessonPanel: lesson
  lessonLoading,   \* LessonPanel: loading
  generating,      \* LessonPanel: generating
  lessonLoads,     \* in-flight loadLesson calls of the panel on screen
  generations,     \* the runs of generateLesson
  files,           \* CodeViewer: files
  filesLoading,    \* CodeViewer: loading
  selectedFile,    \* CodeViewer: selectedFile
  fileLoads,       \* in-flight loadCommitFiles calls of the viewer on screen
  toast,           \* the title of the latest toast
  repositoriesDb,  \* store: repositories
  commitsDb,       \* store: commits
  commitFilesDb,   \* store: commit_files
  lessonsDb,       \* store: lessons, in creation order
  now,             \* Date.now()
  rngSeed,         \* Math.random: seed
  rngPos,          \* Math.random: draws made so far
  probeIn,         \* input of the function under test (function specifications)
  probeOut,        \* its output so far
  probePc          \* its position

appVars == <<user, appLoading, repository, commits, selectedCommit, commitLoads, selects>>
analyzerVars == <<url, analyzing, progress, currentStep, error, intakes>>
panelVars == <<lesson, lessonLoading, generating, lessonLoads, generations>>
viewerVars == <<files, filesLoading, selectedFile, fileLoads>>
dbVars == <<repositoriesDb, commitsDb, commitFilesDb, lessonsDb>>
envVars == <<now, rngSeed, rngPos>>
probeVars == <<probeIn, probeOut, probePc>>
vars == <<appVars, analyzerVars, panelVars, viewerVars, toast, dbVars, envVars, probeVars>>

(***************************************************************************)
(* Bounds of the model.                                                    *)
(***************************************************************************)
MaxIntakes == 1
MaxSelects == 2
MaxGenerations == 2
PoolBound == 2
RoundTripMs == 1
MaxTailTokens == 4
MaxPatchLen == 5
MaxClockStep == 1

\* The seeds of Math.random the model runs with.
Seeds == {6, 7}

None == "none"

Min(a, b) == IF a <= b THEN a ELSE b

(***************************************************************************)
(* Text helpers: String.prototype.startsWith, trim, and the pieces of the  *)
(* regular expression of parseGitHubUrl.                                   *)
(***************************************************************************)
StartsWith(s, p) == Len(s) >= Len(p) /\ SubSeq(s, 1, Len(p)) = p
EndsWith(s, p) == Len(s) >= Len(p) /\ SubSeq(s, Len(s) - Len(p) + 1, Len(s)) = p
Drop(s, n) == SubSeq(s, n + 1, Len(s))

WhiteSpace == {" ", "TAB", "LF", "CR"}
LineTerminators == {"LF", "CR"}

RECURSIVE TrimStart(_)
TrimStart(s) == IF s # <<>> /\ s[1] \in WhiteSpace THEN TrimStart(Drop(s, 1)) ELSE s
RECURSIVE TrimEnd(_)
TrimEnd(s) ==
  IF s # <<>> /\ s[Len(s)] \in WhiteSpace THEN TrimEnd(SubSeq(s, 1, Len(s) - 1)) ELSE s
Trim(s) == TrimEnd(TrimStart(s))

\* The longest prefix of s made of characters other than "/"  ([^/]+, greedy).
RECURSIVE NonSlashRun(_)
NonSlashRun(s) ==
  IF s = <<>> \/ s[1] = "/" THEN <<>> ELSE <<s[1]>> \o NonSlashRun(Drop(s, 1))

HttpsScheme == <<"h", "t", "t", "p", "s">>
HttpScheme == <<"h", "t", "t", "p">>
HostPart == <<":", "/", "/", "g", "i", "t", "h", "u", "b", ".", "c", "o", "m", "/">>
DotGit == <<".", "g", "i", "t">>

\* match[2].replace(/\.git$/, '')
StripDotGit(r) == IF EndsWith(r, DotGit) THEN SubSeq(r, 1, Len(r) - Len(DotGit)) ELSE r

\* /^https?:\/\/github\.com\/([^/]+)\/([^/]+)(?:\/.*)?$/ : the text after "http"
\* or "https" must be "://github.com/", a non-empty run without "/", a "/", a
\* second such run, and then nothing, or a "/" followed by characters that are
\* not line terminators ("." matches none of them, and "$" only the very end).
MatchAfterScheme(s) ==
  IF ~StartsWith(s, HostPart) THEN [ok |-> FALSE]
  ELSE LET a == Drop(s, Len(HostPart))
           g1 == NonSlashRun(a)
           b == Drop(a, Len(g1))
       IN IF g1 = <<>> \/ b = <<>> THEN [ok |-> FALSE]
          ELSE LET c == Drop(b, 1)
                   g2 == NonSlashRun(c)
                   rest == Drop(c, Len(g2))
               IN IF g2 = <<>> THEN [ok |-> FALSE]
                  ELSE IF rest # <<>> /\ \E k \in 2..Len(rest) : rest[k] \in LineTerminators
                       THEN [ok |-> FALSE]
                  ELSE [ok |-> TRUE, g1 |-> g1, g2 |-> g2]

\* "s?" is tried with the "s" first and without it next.
GithubRegex(u) ==
  IF ~StartsWith(u, HttpScheme) THEN [ok |-> FALSE]
  ELSE LET withS == IF StartsWith(u, HttpsScheme)
                    THEN MatchAfterScheme(Drop(u, Len(HttpsScheme)))
                    ELSE [ok |-> FALSE]
       IN IF withS.ok THEN withS ELSE MatchAfterScheme(Drop(u, Len(HttpScheme)))

InvalidUrlMessage == "Invalid GitHub URL format"

\* parseGitHubUrl: throws (ok = FALSE) or returns owner and repo.
parseGitHubUrlNeverThrows(u) ==
  LET m == GithubRegex(u)
  IN IF ~m.ok THEN [ok |-> TRUE, owner |-> <<>>, repo |-> <<>>]
     ELSE [ok |-> TRUE, owner |-> m.g1, repo |-> StripDotGit(m.g2)]
parseGitHubUrlKeepsDotGit(u) ==
  LET m == GithubRegex(u)
  IN IF ~m.ok THEN [ok |-> FALSE, message |-> InvalidUrlMessage]
     ELSE [ok |-> TRUE, owner |-> m.g1, repo |-> m.g2]
parseGitHubUrl(u) ==
  LET m == GithubRegex(u)
  IN IF ~m.ok THEN [ok |-> FALSE, message |-> InvalidUrlMessage]
     ELSE [ok |-> TRUE, owner |-> m.g1, repo |-> StripDotGit(m.g2)]

(***************************************************************************)
(* Math.random and Date-dependent values.                                  *)
(***************************************************************************)
RandScale == 100

\* The draw made at position pos of the stream of seed: r * RandScale.
Rand(seed, pos) == (41 * (pos + 1) + 80 + 10 * seed) % RandScale

\* Math.floor(Math.random() * n) for the draw r.
FloorMul(r, n) == (r * n) \div RandScale

\* Math.random().toString(36).substring(2, 10) / .substr(2, 9): the digits of
\* the draw in base 36.
Base36(r) == <<"b36", r>>

DayMs == 86400000
FetchDelayMs == 1000
DoneDelayMs == 500
CommitCap == 10

commitMessages ==
  << "Initial commit", "Add basic project structure", "Implement core functionality",
     "Add user authentication", "Fix authentication bugs", "Add database integration",
     "Implement API endpoints", "Add error handling", "Update documentation",
     "Optimize performance", "Add unit tests", "Fix security vulnerabilities",
     "Update dependencies", "Add new features", "Final cleanup and release" >>

authors == << "John Doe", "Jane Smith", "Mike Johnson", "Sarah Wilson" >>

\* author.toLowerCase().replace(' ', '.') on the four names of the roster.
LowerDotted(author) ==
  CASE author = "John Doe" -> "john.doe"
    [] author = "Jane Smith" -> "jane.smith"
    [] author = "Mike Johnson" -> "mike.johnson"
    [] author = "Sarah Wilson" -> "sarah.wilson"

\* new Date(ms).toISOString(): the instant, as text.
ToISOString(ms) == <<"iso", ms>>

CommitDraws == 5

\* One iteration of the loop of simulateCommitData: i is the loop index, t the
\* clock, p the position of the stream before the iteration.
CommitAtOrderFromZero(pool, i, t, seed, p) ==
  LET author == authors[FloorMul(Rand(seed, p), Len(authors)) + 1]
  IN [ id |-> <<"commit", t, i>>,
       sha |-> Base36(Rand(seed, p + 1)),
       message |-> pool[i + 1],
       authorName |-> author,
       authorEmail |-> <<LowerDotted(author), "@example.com">>,
       date |-> ToISOString(t - (Len(pool) - i) * DayMs),
       filesChanged |-> FloorMul(Rand(seed, p + 2), 10) + 1,
       additions |-> FloorMul(Rand(seed, p + 3), 100) + 10,
       deletions |-> FloorMul(Rand(seed, p + 4), 50) + 1,
       commitOrder |-> i ]
CommitAtDatedForward(pool, i, t, seed, p) ==
  LET author == authors[FloorMul(Rand(seed, p), Len(authors)) + 1]
  IN [ id |-> <<"commit", t, i>>,
       sha |-> Base36(Rand(seed, p + 1)),
       message |-> pool[i + 1],
       authorName |-> author,
       authorEmail |-> <<LowerDotted(author), "@example.com">>,
       date |-> ToISOString(t - i * DayMs),
       filesChanged |-> FloorMul(Rand(seed, p + 2), 10) + 1,
       additions |-> FloorMul(Rand(seed, p + 3), 100) + 10,
       deletions |-> FloorMul(Rand(seed, p + 4), 50) + 1,
       commitOrder |-> i + 1 ]
CommitAt(pool, i, t, seed, p) ==
  LET author == authors[FloorMul(Rand(seed, p), Len(authors)) + 1]
  IN [ id |-> <<"commit", t, i>>,
       sha |-> Base36(Rand(seed, p + 1)),
       message |-> pool[i + 1],
       authorName |-> author,
       authorEmail |-> <<LowerDotted(author), "@example.com">>,
       date |-> ToISOString(t - (Len(pool) - i) * DayMs),
       filesChanged |-> FloorMul(Rand(seed, p + 2), 10) + 1,
       additions |-> FloorMul(Rand(seed, p + 3), 100) + 10,
       deletions |-> FloorMul(Rand(seed, p + 4), 50) + 1,
       commitOrder |-> i + 1 ]

\* simulateCommitData, called at clock t with the stream at position pos.
simulateCommitData(pool, t, seed, pos) ==
  [k \in 1..Min(Len(pool), CommitCap) |-> CommitAt(pool, k - 1, t, seed, pos + CommitDraws * (k - 1))]

fileExtensions == << ".js", ".ts", ".tsx", ".css", ".html", ".md", ".json" >>
fileNames == << "index", "app", "component", "utils", "config", "styles", "readme" >>
statuses == << "added", "modified", "deleted" >>

\* `${text}`.split-free view of the three patch shapes: a sequence of lines,
\* each a sequence of characters (fixed runs of text kept whole).
Repeat(line, n) == [k \in 1..n |-> line]
AddedLine == <<"+", " ", " ", "// New line of code">>
RemovedLine == <<"-", " ", " ", "// Removed line of code">>
OldLine == <<"-", " ", " ", "// Old line of code">>
AddedPatch(fname, r1, r2) ==
  << <<"+", "+", "+", " ", "b/">> \o fname,
     <<"@", "@", " ", "-0,0 +1,", ToString(FloorMul(r1, 20) + 5), " @@">> >>
  \o Repeat(AddedLine, FloorMul(r2, 10) + 3)
DeletedPatch(fname, r1, r2) ==
  << <<"-", "-", "-", " ", "a/">> \o fname,
     <<"@", "@", " ", "-1,", ToString(FloorMul(r1, 20) + 5), " +0,0 @@">> >>
  \o Repeat(RemovedLine, FloorMul(r2, 10) + 3)
ModifiedPatch(fname, r1, r2, r3, r4) ==
  << <<"-", "-", "-", " ", "a/">> \o fname,
     <<"+", "+", "+", " ", "b/">> \o fname,
     <<"@", "@", " ", "-", ToString(FloorMul(r1, 10) + 1), ",", ToString(FloorMul(r2, 5) + 3),
       " +", ToString(FloorMul(r3, 10) + 1), ",", ToString(FloorMul(r4, 5) + 3), " @@">>,
     OldLine, AddedLine >>

\* How many draws the patch of a file of this status takes.
PatchDraws(status) == IF status = "modified" THEN 4 ELSE 2

\* One iteration of the loop of simulateCommitFiles; p is the position of the
\* stream before the iteration.  The result carries the position after it.
CommitFileAtAlwaysDrawsDeletions(commitId, i, t, seed, p) ==
  LET fileName == fileNames[FloorMul(Rand(seed, p), Len(fileNames)) + 1]
      extension == fileExtensions[FloorMul(Rand(seed, p + 1), Len(fileExtensions)) + 1]
      status == statuses[FloorMul(Rand(seed, p + 2), Len(statuses)) + 1]
      fname == <<fileName, extension>>
      q == p + 3
      patch == IF status = "added"
               THEN AddedPatch(fname, Rand(seed, q), Rand(seed, q + 1))
               ELSE IF status = "deleted"
               THEN DeletedPatch(fname, Rand(seed, q), Rand(seed, q + 1))
               ELSE ModifiedPatch(fname, Rand(seed, q), Rand(seed, q + 1),
                                  Rand(seed, q + 2), Rand(seed, q + 3))
      a == q + PatchDraws(status)
      d == IF status = "deleted" THEN a ELSE a + 1
  IN [ file |-> [ id |-> <<"file", t, i>>,
                  commitId |-> commitId,
                  filename |-> fname,
                  status |-> status,
                  additions |-> IF status = "deleted" THEN 0
                                ELSE FloorMul(Rand(seed, a), 20) + 1,
                  deletions |-> FloorMul(Rand(seed, d), 10) + 1,
                  patch |-> patch ],
       pos |-> d + 1 ]
CommitFileAt(commitId, i, t, seed, p) ==
  LET fileName == fileNames[FloorMul(Rand(seed, p), Len(fileNames)) + 1]
      extension == fileExtensions[FloorMul(Rand(seed, p + 1), Len(fileExtensions)) + 1]
      status == statuses[FloorMul(Rand(seed, p + 2), Len(statuses)) + 1]
      fname == <<fileName, extension>>
      q == p + 3
      patch == IF status = "added"
               THEN AddedPatch(fname, Rand(seed, q), Rand(seed, q + 1))
               ELSE IF status = "deleted"
               THEN DeletedPatch(fname, Rand(seed, q), Rand(seed, q + 1))
               ELSE ModifiedPatch(fname, Rand(seed, q), Rand(seed, q + 1),
                                  Rand(seed, q + 2), Rand(seed, q + 3))
      a == q + PatchDraws(status)
      d == IF status = "deleted" THEN a ELSE a + 1
  IN [ file |-> [ id |-> <<"file", t, i>>,
                  commitId |-> commitId,
                  filename |-> fname,
                  status |-> status,
                  additions |-> IF status = "deleted" THEN 0
                                ELSE FloorMul(Rand(seed, a), 20) + 1,
                  deletions |-> IF status = "added" THEN 0
                                ELSE FloorMul(Rand(seed, d), 10) + 1,
                  patch |-> patch ],
       pos |-> IF status = "added" THEN d ELSE d + 1 ]

\* The loop of simulateCommitFiles from index i on: the files and the position
\* of the stream after the last draw.
RECURSIVE FilesLoop(_, _, _, _, _, _, _)
FilesLoop(commitId, filesChanged, i, t, seed, p, acc) ==
  IF i < filesChanged
  THEN LET step == CommitFileAt(commitId, i, t, seed, p)
       IN FilesLoop(commitId, filesChanged, i + 1, t, seed, step.pos, Append(acc, step.file))
  ELSE [files |-> acc, pos |-> p]

simulateCommitFilesFromOne(commitId, filesChanged, t, seed, pos) ==
  FilesLoop(commitId, filesChanged, 1, t, seed, pos, <<>>)
simulateCommitFiles(commitId, filesChanged, t, seed, pos) ==
  FilesLoop(commitId, filesChanged, 0, t, seed, pos, <<>>)

(***************************************************************************)
(* The persistence gateway.  A collection holds records with unique ids:   *)
(* create adds one record or fails, update changes the named fields of one *)
(* record or fails, list returns the matching records.  A failed call      *)
(* changes nothing.                                                        *)
(***************************************************************************)
Ids(coll) == {r.id : r \in coll}
DbCreate(coll, rec) == coll \cup {rec}
DbUpdateRepositoryOneShort(coll, id, total, status) ==
  {IF r.id = id THEN [r EXCEPT !.total_commits = total - 1, !.analysis_status = status] ELSE r
     : r \in coll}
DbUpdateRepositoryAndBranch(coll, id, total, status) ==
  {IF r.id = id
   THEN [r EXCEPT !.total_commits = total, !.analysis_status = status, !.default_branch = "master"]
   ELSE r
     : r \in coll}
DbUpdateRepository(coll, id, total, status) ==
  {IF r.id = id THEN [r EXCEPT !.total_commits = total, !.analysis_status = status] ELSE r
     : r \in coll}

\* lessons is kept in creation order.
DbUpsertLesson(coll, rec) ==
  IF \E n \in DOMAIN coll : coll[n].commitId = rec.commitId
  THEN [n \in DOMAIN coll |-> IF coll[n].commitId = rec.commitId THEN rec ELSE coll[n]]
  ELSE Append(coll, rec)
DbCreateLesson(coll, rec) == Append(coll, rec)

\* commits.list({ where: { repository_id }, orderBy: { commit_order: 'asc' } })
RECURSIVE SortByOrderDescending(_)
SortByOrderDescending(S) ==
  IF S = {} THEN <<>>
  ELSE LET m == CHOOSE r \in S : \A o \in S : r.commit_order >= o.commit_order
       IN <<m>> \o SortByOrderDescending(S \ {m})
RECURSIVE SortByOrder(_)
SortByOrder(S) ==
  IF S = {} THEN <<>>
  ELSE LET m == CHOOSE r \in S : \A o \in S : r.commit_order <= o.commit_order
       IN <<m>> \o SortByOrder(S \ {m})

(***************************************************************************)
(* What is on screen.  App renders the analyzer while a user is signed in  *)
(* and no repository is set, and the Lesson Panel while a user is signed   *)
(* in, a repository is set, commits are loaded and one is selected.        *)
(***************************************************************************)
Users == {"u1"}

AnalyzerShown(u, l, r) == ~l /\ u # None /\ r = <<>>
PanelShown(u, l, r, cs, sc) == ~l /\ u # None /\ r # <<>> /\ Len(cs) > 0 /\ sc # <<>>
AnalyzerMounted == AnalyzerShown(user, appLoading, repository)
PanelMounted == PanelShown(user, appLoading, repository, commits, selectedCommit)

\* setProgress values are fractions: 60 + (i / commits.length) * 30.
Pct(n) == [num |-> n, den |-> 1]

StepCreating == "Creating repository record..."
StepFetching == "Fetching commit history..."
StepProcessing == "Processing commits and generating diffs..."
StepFinalizing == "Finalizing analysis..."
StepComplete == "Analysis complete!"

EmptyUrlMessage == "Please enter a GitHub repository URL"
GatewayErrorMessage == "Request failed"
ToastAnalysisComplete == "Analysis Complete"
ToastAnalysisFailed == "Analysis Failed"
ToastError == "Error"
ToastLessonGenerated == "Lesson Generated"
ToastGenerationFailed == "Generation Failed"

\* Runs whose component left the screen: their setState calls do nothing.
Unlive(runs) == [k \in DOMAIN runs |-> [runs[k] EXCEPT !.live = FALSE]]

\* The analyzer after App rendered with user u, loading l and repository r,
\* flows being its runs: it keeps its state while it stays on screen, and
\* is a new component (useState initial values) when it comes back.
AnalyzerRender(u, l, r, flows) ==
  IF AnalyzerMounted /\ AnalyzerShown(u, l, r)
  THEN /\ intakes' = flows
       /\ UNCHANGED <<url, analyzing, progress, currentStep, error>>
  ELSE /\ intakes' = Unlive(flows)
       /\ url' = <<>>
       /\ analyzing' = FALSE
       /\ progress' = Pct(0)
       /\ currentStep' = ""
       /\ error' = ""

\* The Lesson Panel after App rendered with these values: while it
\* stays on screen a change of commit.id re-runs the effect (loadLesson), a
\* new panel runs it on mount.
PanelRender(u, l, r, cs, sc) ==
  IF PanelMounted /\ PanelShown(u, l, r, cs, sc)
  THEN IF sc[1].id = selectedCommit[1].id
       THEN UNCHANGED panelVars
       ELSE /\ lessonLoading' = TRUE
            /\ lessonLoads' = Append(lessonLoads, [commitId |-> sc[1].id])
            /\ UNCHANGED <<lesson, generating, generations>>
  ELSE /\ lesson' = <<>>
       /\ lessonLoading' = TRUE
       /\ generating' = FALSE
       /\ generations' = Unlive(generations)
       /\ lessonLoads' = IF PanelShown(u, l, r, cs, sc)
                         THEN <<[commitId |-> sc[1].id]>>
                         ELSE <<>>

\* The CodeViewer after App rendered with these values: it is on screen
\* with the Lesson Panel, its effect (loadCommitFiles) runs on mount and when
\* commit.id changes.
ViewerRender(u, l, r, cs, sc) ==
  IF PanelMounted /\ PanelShown(u, l, r, cs, sc)
  THEN IF sc[1].id = selectedCommit[1].id
       THEN UNCHANGED viewerVars
       ELSE /\ filesLoading' = TRUE
            /\ fileLoads' = Append(fileLoads, [commitId |-> sc[1].id])
            /\ UNCHANGED <<files, selectedFile>>
  ELSE /\ files' = {}
       /\ filesLoading' = TRUE
       /\ selectedFile' = <<>>
       /\ fileLoads' = IF PanelShown(u, l, r, cs, sc)
                       THEN <<[commitId |-> sc[1].id]>>
                       ELSE <<>>

(***************************************************************************)
(* App: the auth subscription.                                             *)
(***************************************************************************)
\* onAuthStateChanged((state) => { setUser(state.user); setLoading(state.isLoading) })
AuthStateChanged(u) ==
  /\ u # user \/ appLoading
  /\ user' = u
  /\ appLoading' = FALSE
  /\ UNCHANGED <<repository, commits, selectedCommit, commitLoads, selects>>
  /\ AnalyzerRender(u, FALSE, repository, intakes)
  /\ PanelRender(u, FALSE, repository, commits, selectedCommit)
  /\ ViewerRender(u, FALSE, repository, commits, selectedCommit)
  /\ UNCHANGED <<toast, dbVars, envVars, probeVars>>

(***************************************************************************)
(* RepositoryAnalyzer.                                                     *)
(***************************************************************************)
UrlAcme == HttpsScheme \o HostPart \o <<"a", "/", "w">>
UrlNoRepo == HttpsScheme \o HostPart \o <<"a">>
UrlBlank == <<" ">>
SampleUrls == {UrlAcme, UrlNoRepo, UrlBlank}

\* The messages simulateCommitData draws on in the intake of the model.
IntakePool == SubSeq(commitMessages, 1, Min(PoolBound, Len(commitMessages)))

\* onChange={(e) => setUrl(e.target.value)}, disabled={analyzing}
SetUrl(u) ==
  /\ AnalyzerMounted
  /\ ~analyzing
  /\ u # url
  /\ url' = u
  /\ UNCHANGED <<analyzing, progress, currentStep, error, intakes>>
  /\ UNCHANGED <<appVars, panelVars, viewerVars, toast, dbVars, envVars, probeVars>>

CallOf(op, id, parent) == [op |-> op, id |-> id, of |-> parent]

\* The analyzer's state after the finally block.
AnalyzerIdle ==
  /\ analyzing' = FALSE
  /\ progress' = Pct(0)
  /\ currentStep' = ""

\* The click on a button that is not disabled while analyzing.
StartIntakeWhileAnalyzing(limit) ==
  /\ AnalyzerMounted
  /\ Trim(url) # <<>>
  /\ LET parsed == parseGitHubUrl(Trim(url))
     IN IF Trim(url) = <<>>
        THEN /\ error' = EmptyUrlMessage
             /\ UNCHANGED <<url, analyzing, progress, currentStep, intakes, rngPos, toast>>
        ELSE IF ~parsed.ok
        THEN /\ error' = parsed.message
             /\ toast' = ToastAnalysisFailed
             /\ AnalyzerIdle
             /\ UNCHANGED <<url, intakes, rngPos>>
        ELSE /\ Len(intakes) < limit
             /\ analyzing' = TRUE
             /\ error' = ""
             /\ progress' = Pct(20)
             /\ currentStep' = StepCreating
             /\ intakes' = Append(intakes,
                  [ pc |-> "me", live |-> TRUE, url |-> Trim(url),
                    owner |-> parsed.owner, repo |-> parsed.repo,
                    repositoryId |-> <<"repo", now, Base36(Rand(rngSeed, rngPos))>>,
                    userId |-> None,
                    commits |-> <<>>, i |-> 0, files |-> <<>>, j |-> 0,
                    wake |-> now + RoundTripMs,
                    log |-> <<CallOf("auth.me", <<>>, <<>>)>>,
                    callbacks |-> 0, toast |-> "" ])
             /\ rngPos' = rngPos + 1
             /\ UNCHANGED <<url, toast>>
  /\ UNCHANGED <<appVars, panelVars, viewerVars, dbVars, now, rngSeed, probeVars>>
\* A click on the button, which is disabled while analyzing or while url.trim()
\* is empty: analyzeRepository up to its first await, in a session of at most
\* limit runs.  A url that does not parse throws before anything is awaited:
\* catch and finally run in the same step.
StartIntake(limit) ==
  /\ AnalyzerMounted
  /\ ~analyzing
  /\ Trim(url) # <<>>
  /\ LET parsed == parseGitHubUrl(Trim(url))
     IN IF Trim(url) = <<>>
        THEN /\ error' = EmptyUrlMessage
             /\ UNCHANGED <<url, analyzing, progress, currentStep, intakes, rngPos, toast>>
        ELSE IF ~parsed.ok
        THEN /\ error' = parsed.message
             /\ toast' = ToastAnalysisFailed
             /\ AnalyzerIdle
             /\ UNCHANGED <<url, intakes, rngPos>>
        ELSE /\ Len(intakes) < limit
             /\ analyzing' = TRUE
             /\ error' = ""
             /\ progress' = Pct(20)
             /\ currentStep' = StepCreating
             /\ intakes' = Append(intakes,
                  [ pc |-> "me", live |-> TRUE, url |-> Trim(url),
                    owner |-> parsed.owner, repo |-> parsed.repo,
                    repositoryId |-> <<"repo", now, Base36(Rand(rngSeed, rngPos))>>,
                    userId |-> None,
                    commits |-> <<>>, i |-> 0, files |-> <<>>, j |-> 0,
                    wake |-> now + RoundTripMs,
                    log |-> <<CallOf("auth.me", <<>>, <<>>)>>,
                    callbacks |-> 0, toast |-> "" ])
             /\ rngPos' = rngPos + 1
             /\ UNCHANGED <<url, toast>>
  /\ UNCHANGED <<appVars, panelVars, viewerVars, dbVars, now, rngSeed, probeVars>>

\* The click, in a session of at most MaxIntakes runs.
AnalyzeRepository == StartIntake(MaxIntakes)

\* The records analyzeRepository hands to the gateway.
RepositoryRecord(fl, uid) ==
  [ id |-> fl.repositoryId, user_id |-> uid, name |-> fl.repo,
    full_name |-> fl.owner \o <<"/">> \o fl.repo, url |-> fl.url,
    description |-> <<"Repository ">> \o fl.repo \o <<" by ">> \o fl.owner,
    default_branch |-> "main", total_commits |-> 0, analysis_status |-> "analyzing" ]
CommitRecordNamesTheRepo(fl, c) ==
  [ id |-> c.id, repository_id |-> fl.repo, sha |-> c.sha, message |-> c.message,
    author_name |-> c.authorName, author_email |-> c.authorEmail, date |-> c.date,
    files_changed |-> c.filesChanged, additions |-> c.additions, deletions |-> c.deletions,
    commit_order |-> c.commitOrder ]
CommitRecord(fl, c) ==
  [ id |-> c.id, repository_id |-> fl.repositoryId, sha |-> c.sha, message |-> c.message,
    author_name |-> c.authorName, author_email |-> c.authorEmail, date |-> c.date,
    files_changed |-> c.filesChanged, additions |-> c.additions, deletions |-> c.deletions,
    commit_order |-> c.commitOrder ]
CommitFileRecord(file) ==
  [ id |-> file.id, commit_id |-> file.commitId, filename |-> file.filename,
    status |-> file.status, additions |-> file.additions, deletions |-> file.deletions,
    patch |-> file.patch ]

Max(a, b) == IF a >= b THEN a ELSE b

\* The due times of what the runs of analyzeRepository and generateLesson
\* await: the handlers that read the clock.
PendingWakes ==
  {intakes[f].wake : f \in {k \in DOMAIN intakes : intakes[k].pc \notin {"done", "failed"}}}
  \cup {generations[g].wake : g \in {k \in DOMAIN generations : generations[k].pc \notin {"done", "failed"}}}

\* What is awaited comes in the order of its due time; answers due at the
\* same instant come in any order.
Due(w) == \A v \in PendingWakes : w <= v

\* A run of analyzeRepository waits for the answer of a gateway call.
AwaitsGateway(fl) == fl.pc \in {"me", "repoCreate", "commitCreate", "fileCreate", "repoUpdate"}

\* setState of the analyzer from run f: only while its component is on screen.
AnalyzerSet(f, a, p, st, e) ==
  IF intakes[f].live
  THEN analyzing' = a /\ progress' = p /\ currentStep' = st /\ error' = e
  ELSE UNCHANGED <<analyzing, progress, currentStep, error>>

\* (await blink.auth.me()).id resolves: repositories.create is issued.
MeReturns(f) ==
  /\ intakes[f].pc = "me"
  /\ user # None
  /\ Due(intakes[f].wake)
  /\ now' = Max(now, intakes[f].wake)
  /\ intakes' = [intakes EXCEPT ![f].pc = "repoCreate",
                                ![f].userId = user,
                                ![f].wake = now' + RoundTripMs,
                                ![f].log = Append(@, CallOf("repositories.create", intakes[f].repositoryId, <<>>))]
  /\ UNCHANGED <<url, analyzing, progress, currentStep, error>>
  /\ UNCHANGED <<appVars, panelVars, viewerVars, toast, dbVars, rngSeed, rngPos, probeVars>>

\* repositories.create resolves: the record is stored, the one-second wait starts.
RepoCreateReturns(f) ==
  LET fl == intakes[f]
  IN /\ fl.pc = "repoCreate"
     /\ fl.repositoryId \notin Ids(repositoriesDb)
     /\ Due(fl.wake)
     /\ now' = Max(now, fl.wake)
     /\ repositoriesDb' = DbCreate(repositoriesDb, RepositoryRecord(fl, fl.userId))
     /\ intakes' = [intakes EXCEPT ![f].pc = "fetchDelay", ![f].wake = now' + FetchDelayMs]
     /\ AnalyzerSet(f, analyzing, Pct(40), StepFetching, error)
     /\ UNCHANGED url
     /\ UNCHANGED <<appVars, panelVars, viewerVars, toast, commitsDb, commitFilesDb, lessonsDb,
                    rngSeed, rngPos, probeVars>>

\* setProgress(60 + (i / commits.length) * 30)
LoopProgress(i, n) == [num |-> 60 * n + 30 * i, den |-> n]

\* The for loop over commits at index i (0-based) of run fl at clock t: issue
\* commits.create of commit i, or leave the loop and issue repositories.update.
LoopAtLeavesOneShort(fl, i, t) ==
  IF i < Len(fl.commits) - 1
  THEN [fl EXCEPT !.pc = "commitCreate", !.i = i, !.files = <<>>, !.j = 0,
                  !.wake = t + RoundTripMs,
                  !.log = Append(@, CallOf("commits.create", fl.commits[i + 1].id, fl.repositoryId))]
  ELSE [fl EXCEPT !.pc = "repoUpdate", !.i = i, !.files = <<>>, !.j = 0,
                  !.wake = t + RoundTripMs,
                  !.log = Append(@, CallOf("repositories.update", fl.repositoryId, <<>>))]
LoopAt(fl, i, t) ==
  IF i < Len(fl.commits)
  THEN [fl EXCEPT !.pc = "commitCreate", !.i = i, !.files = <<>>, !.j = 0,
                  !.wake = t + RoundTripMs,
                  !.log = Append(@, CallOf("commits.create", fl.commits[i + 1].id, fl.repositoryId))]
  ELSE [fl EXCEPT !.pc = "repoUpdate", !.i = i, !.files = <<>>, !.j = 0,
                  !.wake = t + RoundTripMs,
                  !.log = Append(@, CallOf("repositories.update", fl.repositoryId, <<>>))]

\* The analyzer's progress and step when the loop stands at index i.
LoopScreen(f, fl, i) ==
  IF i < Len(fl.commits)
  THEN AnalyzerSet(f, analyzing, IF i = 0 THEN Pct(60) ELSE LoopProgress(i - 1, Len(fl.commits)),
                   StepProcessing, error)
  ELSE AnalyzerSet(f, analyzing, Pct(90), StepFinalizing, error)

\* The one-second wait is over: simulateCommitData runs, the loop starts.
FetchDelayFires(f) ==
  LET fl == intakes[f]
  IN /\ fl.pc = "fetchDelay"
     /\ Due(fl.wake)
     /\ now' = Max(now, fl.wake)
     /\ LET cs == simulateCommitData(IntakePool, now', rngSeed, rngPos)
            withCommits == [fl EXCEPT !.commits = cs]
        IN /\ rngPos' = rngPos + CommitDraws * Len(cs)
           /\ intakes' = [intakes EXCEPT ![f] = LoopAt(withCommits, 0, now')]
           /\ LoopScreen(f, withCommits, 0)
     /\ UNCHANGED url
     /\ UNCHANGED <<appVars, panelVars, viewerVars, toast, dbVars, rngSeed, probeVars>>

\* commits.create resolves: simulateCommitFiles runs, the first file is sent;
\* filesChanged is at least 1 for a generated commit.
CommitCreateReturns(f) ==
  LET fl == intakes[f]
      c == fl.commits[fl.i + 1]
  IN /\ fl.pc = "commitCreate"
     /\ c.id \notin Ids(commitsDb)
     /\ Due(fl.wake)
     /\ now' = Max(now, fl.wake)
     /\ commitsDb' = DbCreate(commitsDb, CommitRecord(fl, c))
     /\ LET sim == simulateCommitFiles(c.id, c.filesChanged, now', rngSeed, rngPos)
        IN /\ rngPos' = sim.pos
           /\ IF sim.files = <<>>
              THEN /\ intakes' = [intakes EXCEPT ![f] = LoopAt(fl, fl.i + 1, now')]
                   /\ LoopScreen(f, fl, fl.i + 1)
              ELSE /\ intakes' = [intakes EXCEPT
                        ![f].pc = "fileCreate", ![f].files = sim.files, ![f].j = 1,
                        ![f].wake = now' + RoundTripMs,
                        ![f].log = Append(@, CallOf("commit_files.create", sim.files[1].id, c.id))]
                   /\ UNCHANGED <<analyzing, progress, currentStep, error>>
     /\ UNCHANGED url
     /\ UNCHANGED <<appVars, panelVars, viewerVars, toast, repositoriesDb, commitFilesDb, lessonsDb,
                    rngSeed, probeVars>>

\* commit_files.create resolves: the next file is sent, or the loop goes on.
FileCreateReturns(f) ==
  LET fl == intakes[f]
      file == fl.files[fl.j]
  IN /\ fl.pc = "fileCreate"
     /\ file.id \notin Ids(commitFilesDb)
     /\ Due(fl.wake)
     /\ now' = Max(now, fl.wake)
     /\ commitFilesDb' = DbCreate(commitFilesDb, CommitFileRecord(file))
     /\ IF fl.j < Len(fl.files)
        THEN /\ intakes' = [intakes EXCEPT
                  ![f].j = fl.j + 1, ![f].wake = now' + RoundTripMs,
                  ![f].log = Append(@, CallOf("commit_files.create", fl.files[fl.j + 1].id,
                                              file.commitId))]
             /\ UNCHANGED <<analyzing, progress, currentStep, error>>
        ELSE /\ intakes' = [intakes EXCEPT ![f] = LoopAt(fl, fl.i + 1, now')]
             /\ LoopScreen(f, fl, fl.i + 1)
     /\ UNCHANGED url
     /\ UNCHANGED <<appVars, panelVars, viewerVars, toast, repositoriesDb, commitsDb, lessonsDb,
                    rngSeed, rngPos, probeVars>>

\* repositories.update resolves: the half-second wait starts.
RepoUpdateReturns(f) ==
  LET fl == intakes[f]
  IN /\ fl.pc = "repoUpdate"
     /\ fl.repositoryId \in Ids(repositoriesDb)
     /\ Due(fl.wake)
     /\ now' = Max(now, fl.wake)
     /\ repositoriesDb' = DbUpdateRepository(repositoriesDb, fl.repositoryId,
                                             Len(fl.commits), "completed")
     /\ intakes' = [intakes EXCEPT ![f].pc = "doneDelay", ![f].wake = now' + DoneDelayMs]
     /\ AnalyzerSet(f, analyzing, Pct(100), StepComplete, error)
     /\ UNCHANGED url
     /\ UNCHANGED <<appVars, panelVars, viewerVars, toast, commitsDb, commitFilesDb, lessonsDb,
                    rngSeed, rngPos, probeVars>>

FinalRepositoryAsCreated(fl) ==
  [ id |-> fl.repositoryId, name |-> fl.repo, fullName |-> fl.owner \o <<"/">> \o fl.repo,
    url |-> fl.url, description |-> <<"Repository ">> \o fl.repo \o <<" by ">> \o fl.owner,
    defaultBranch |-> "main", totalCommits |-> 0, analysisStatus |-> "analyzing" ]
FinalRepository(fl) ==
  [ id |-> fl.repositoryId, name |-> fl.repo, fullName |-> fl.owner \o <<"/">> \o fl.repo,
    url |-> fl.url, description |-> <<"Repository ">> \o fl.repo \o <<" by ">> \o fl.owner,
    defaultBranch |-> "main", totalCommits |-> Len(fl.commits), analysisStatus |-> "completed" ]

\* The half-second wait is over: onRepositoryAnalyzed(finalRepository), which is
\* App's handleRepositoryAnalyzed (setRepository, loadCommits: commits.list is
\* issued), then the toast and the finally block.  App stays mounted whoever
\* is signed in, so its setRepository always takes effect.
DoneDelayFires(f) ==
  LET fl == intakes[f]
      done == [fl EXCEPT !.pc = "done", !.callbacks = @ + 1, !.toast = ToastAnalysisComplete]
  IN /\ fl.pc = "doneDelay"
     /\ Due(fl.wake)
     /\ now' = Max(now, fl.wake)
     /\ repository' = <<FinalRepository(fl)>>
     /\ commitLoads' = Append(commitLoads, [repositoryId |-> fl.repositoryId])
     /\ toast' = ToastAnalysisComplete
     /\ UNCHANGED <<user, appLoading, commits, selectedCommit, selects>>
     /\ AnalyzerRender(user, appLoading, repository', [intakes EXCEPT ![f] = done])
     /\ PanelRender(user, appLoading, repository', commits, selectedCommit)
     /\ ViewerRender(user, appLoading, repository', commits, selectedCommit)
     /\ UNCHANGED <<dbVars, rngSeed, rngPos, probeVars>>

\* An awaited gateway call rejects: catch (setError, toast) and finally.
\* Nothing is stored and nothing further is issued.
IntakeFailsAndRollsBack(f) ==
  LET fl == intakes[f]
  IN /\ AwaitsGateway(fl)
     /\ Due(fl.wake)
     /\ now' = Max(now, fl.wake)
     /\ intakes' = [intakes EXCEPT ![f].pc = "failed", ![f].toast = ToastAnalysisFailed]
     /\ toast' = ToastAnalysisFailed
     /\ AnalyzerSet(f, FALSE, Pct(0), "", GatewayErrorMessage)
     /\ commitsDb' = {c \in commitsDb : c.repository_id # fl.repositoryId}
     /\ UNCHANGED <<url, repositoriesDb, commitFilesDb, lessonsDb>>
     /\ UNCHANGED <<appVars, panelVars, viewerVars, rngSeed, rngPos, probeVars>>
IntakeFailsKeepsProgress(f) ==
  LET fl == intakes[f]
  IN /\ AwaitsGateway(fl)
     /\ Due(fl.wake)
     /\ now' = Max(now, fl.wake)
     /\ intakes' = [intakes EXCEPT ![f].pc = "failed", ![f].toast = ToastAnalysisFailed]
     /\ toast' = ToastAnalysisFailed
     /\ AnalyzerSet(f, FALSE, progress, currentStep, GatewayErrorMessage)
     /\ UNCHANGED url
     /\ UNCHANGED <<appVars, panelVars, viewerVars, dbVars, rngSeed, rngPos, probeVars>>
IntakeFails(f) ==
  LET fl == intakes[f]
  IN /\ AwaitsGateway(fl)
     /\ Due(fl.wake)
     /\ now' = Max(now, fl.wake)
     /\ intakes' = [intakes EXCEPT ![f].pc = "failed", ![f].toast = ToastAnalysisFailed]
     /\ toast' = ToastAnalysisFailed
     /\ AnalyzerSet(f, FALSE, Pct(0), "", GatewayErrorMessage)
     /\ UNCHANGED url
     /\ UNCHANGED <<appVars, panelVars, viewerVars, dbVars, rngSeed, rngPos, probeVars>>

(***************************************************************************)
(* App: loadCommits and the timeline.                                      *)
(***************************************************************************)
\* commitsData.map(commit => ({ ... filesChanged: commit.files_changed || 0 ... }))
FormatCommit(r) ==
  [ id |-> r.id, sha |-> r.sha, message |-> r.message, authorName |-> r.author_name,
    authorEmail |-> r.author_email, date |-> r.date, filesChanged |-> r.files_changed,
    additions |-> r.additions, deletions |-> r.deletions, commitOrder |-> r.commit_order ]

RemoveAt(s, k) == SubSeq(s, 1, k - 1) \o SubSeq(s, k + 1, Len(s))

\* commits.list resolves in loadCommits: setCommits, and setSelectedCommit of
\* the first one if there is any.
CommitsListReturns(k) ==
  LET ld == commitLoads[k]
      rows == SortByOrder({r \in commitsDb : r.repository_id = ld.repositoryId})
      formatted == [n \in DOMAIN rows |-> FormatCommit(rows[n])]
  IN /\ k \in DOMAIN commitLoads
     /\ UNCHANGED now
     /\ commitLoads' = RemoveAt(commitLoads, k)
     /\ commits' = formatted
     /\ selectedCommit' = IF Len(formatted) > 0 THEN <<formatted[1]>> ELSE selectedCommit
     /\ UNCHANGED <<user, appLoading, repository, selects>>
     /\ PanelRender(user, appLoading, repository, commits', selectedCommit')
     /\ ViewerRender(user, appLoading, repository, commits', selectedCommit')
     /\ UNCHANGED <<analyzerVars, toast, dbVars, rngSeed, rngPos, probeVars>>

\* commits.list rejects: the error is logged, nothing else happens.
CommitsListFails(k) ==
  /\ k \in DOMAIN commitLoads
  /\ UNCHANGED now
  /\ commitLoads' = RemoveAt(commitLoads, k)
  /\ UNCHANGED <<user, appLoading, repository, commits, selectedCommit, selects>>
  /\ UNCHANGED <<analyzerVars, panelVars, viewerVars, toast, dbVars, rngSeed, rngPos, probeVars>>

\* A click on commit number n of the timeline: handleCommitSelect.
HandleCommitSelect(n) ==
  /\ ~appLoading /\ user # None /\ repository # <<>>
  /\ n \in DOMAIN commits
  /\ selects < MaxSelects
  /\ selects' = selects + 1
  /\ selectedCommit' = <<commits[n]>>
  /\ UNCHANGED <<user, appLoading, repository, commits, commitLoads>>
  /\ PanelRender(user, appLoading, repository, commits, selectedCommit')
  /\ ViewerRender(user, appLoading, repository, commits, selectedCommit')
  /\ UNCHANGED <<analyzerVars, toast, dbVars, envVars, probeVars>>

(***************************************************************************)
(* CodeViewer: loadCommitFiles.  The list comes back without an order      *)
(* asked for: files is kept as the set of its rows, and the row that is    *)
(* first (formattedFiles[0]) is any one of them.                           *)
(***************************************************************************)
\* filesData.map(file => ({ ... additions: file.additions || 0 ... }))
FormatFile(r) ==
  [ id |-> r.id, filename |-> r.filename, status |-> r.status,
    additions |-> r.additions, deletions |-> r.deletions, patch |-> r.patch ]

\* What commitFiles.list({ where: { commitId } }) returns, formatted.
FormattedFilesOf(commitId) == {FormatFile(r) : r \in {x \in commitFilesDb : x.commit_id = commitId}}

\* formattedFiles[0] for the rows of a commit: none when there is no row.
FirstFileChoices(commitId) ==
  IF FormattedFilesOf(commitId) = {} THEN {<<>>}
  ELSE {<<r>> : r \in FormattedFilesOf(commitId)}

\* commitFiles.list resolves in loadCommitFiles, first being formattedFiles[0]
\* if there is any row: setFiles, setSelectedFile, and loading ends.
CommitFilesListReturns(k, first) ==
  /\ k \in DOMAIN fileLoads
  /\ first \in FirstFileChoices(fileLoads[k].commitId)
  /\ UNCHANGED now
  /\ fileLoads' = RemoveAt(fileLoads, k)
  /\ files' = FormattedFilesOf(fileLoads[k].commitId)
  /\ selectedFile' = IF first = <<>> THEN selectedFile ELSE first
  /\ filesLoading' = FALSE
  /\ UNCHANGED <<appVars, analyzerVars, panelVars, toast, dbVars, rngSeed, rngPos, probeVars>>

\* commitFiles.list rejects in loadCommitFiles: toast, and loading ends.
CommitFilesListFails(k) ==
  /\ k \in DOMAIN fileLoads
  /\ UNCHANGED now
  /\ fileLoads' = RemoveAt(fileLoads, k)
  /\ filesLoading' = FALSE
  /\ toast' = ToastError
  /\ UNCHANGED <<files, selectedFile>>
  /\ UNCHANGED <<appVars, analyzerVars, panelVars, dbVars, rngSeed, rngPos, probeVars>>

\* A click on a file of the list, which is rendered once loading is over:
\* onClick={() => setSelectedFile(file)}.
SelectFile(file) ==
  /\ PanelMounted
  /\ ~filesLoading
  /\ file \in files
  /\ selectedFile # <<file>>
  /\ selectedFile' = <<file>>
  /\ UNCHANGED <<files, filesLoading, fileLoads>>
  /\ UNCHANGED <<appVars, analyzerVars, panelVars, toast, dbVars, envVars, probeVars>>

(***************************************************************************)
(* CodeViewer: formatPatch.  A patch is text with "LF" for a line feed.    *)
(***************************************************************************)
\* lines.join('\n'): the text of a patch the generator built line by line.
RECURSIVE PatchText(_)
PatchText(lines) ==
  IF lines = <<>> THEN <<>>
  ELSE IF Len(lines) = 1 THEN lines[1]
  ELSE lines[1] \o <<"LF">> \o PatchText(Drop(lines, 1))

\* patch.split('\n')
RECURSIVE SplitLines(_)
SplitLines(t) ==
  IF \A k \in DOMAIN t : t[k] # "LF" THEN <<t>>
  ELSE LET k == CHOOSE i \in DOMAIN t : t[i] = "LF" /\ \A j \in 1..(i - 1) : t[j] # "LF"
       IN <<SubSeq(t, 1, k - 1)>> \o SplitLines(Drop(t, k))

ClassHeader == "text-slate-500 font-medium"
ClassHunk == "text-blue-600 font-medium bg-blue-50"
ClassAddition == "text-green-700 bg-green-50"
ClassDeletion == "text-red-700 bg-red-50"
ClassContext == "text-slate-700"

\* The body of lines.map((line, index) => ...).
PatchLineAddsBeforeHeaders(line, index) ==
  LET hit == IF StartsWith(line, <<"+">>) THEN [className |-> ClassAddition, prefix |-> <<"+">>]
             ELSE IF StartsWith(line, <<"+", "+", "+">>) \/ StartsWith(line, <<"-", "-", "-">>)
             THEN [className |-> ClassHeader, prefix |-> <<>>]
             ELSE IF StartsWith(line, <<"@", "@">>)
             THEN [className |-> ClassHunk, prefix |-> <<>>]
             ELSE IF StartsWith(line, <<"-">>)
             THEN [className |-> ClassDeletion, prefix |-> <<"-">>]
             ELSE IF StartsWith(line, <<" ">>)
             THEN [className |-> ClassContext, prefix |-> <<" ">>]
             ELSE [className |-> ClassContext, prefix |-> <<>>]
  IN [ id |-> index, content |-> Drop(line, IF hit.prefix # <<>> THEN 1 ELSE 0),
       className |-> hit.className, prefix |-> hit.prefix, originalLine |-> line ]
PatchLine(line, index) ==
  LET hit == IF StartsWith(line, <<"+", "+", "+">>) \/ StartsWith(line, <<"-", "-", "-">>)
             THEN [className |-> ClassHeader, prefix |-> <<>>]
             ELSE IF StartsWith(line, <<"@", "@">>)
             THEN [className |-> ClassHunk, prefix |-> <<>>]
             ELSE IF StartsWith(line, <<"+">>)
             THEN [className |-> ClassAddition, prefix |-> <<"+">>]
             ELSE IF StartsWith(line, <<"-">>)
             THEN [className |-> ClassDeletion, prefix |-> <<"-">>]
             ELSE IF StartsWith(line, <<" ">>)
             THEN [className |-> ClassContext, prefix |-> <<" ">>]
             ELSE [className |-> ClassContext, prefix |-> <<>>]
  IN [ id |-> index, content |-> Drop(line, IF hit.prefix # <<>> THEN 1 ELSE 0),
       className |-> hit.className, prefix |-> hit.prefix, originalLine |-> line ]

\* formatPatch: nothing for an empty patch, otherwise one entry per line.
formatPatch(patch) ==
  IF patch = <<>> THEN <<>>
  ELSE LET lines == SplitLines(patch)
       IN [n \in DOMAIN lines |-> PatchLine(lines[n], n - 1)]

(***************************************************************************)
(* LessonPanel.  The text the model hands back is known by its length.     *)
(***************************************************************************)
TextLengths == {450}
Text(len) == <<"text", len>>

\* Math.ceil(text.length / 200)
ReadingTime(len) == (len + 199) \div 200

LessonTitle(c) == <<"Understanding: ", c.message>>
\* commit.sha.substring(0, 8): the sha has eight characters.
LessonSummary(c) == <<"Learn about the changes made in commit ", c.sha>>

\* The row handed to lessons.create.
LessonRecord(g) ==
  [ id |-> g.lessonId, commitId |-> g.commit.id, title |-> LessonTitle(g.commit),
    content |-> Text(g.textLen), summary |-> LessonSummary(g.commit),
    keyConcepts |-> "Git, Version Control, Code Analysis",
    difficultyLevel |-> "intermediate",
    estimatedReadingTime |-> ReadingTime(g.textLen), status |-> "generated" ]

\* setLesson({...}) at the end of generateLesson.
GeneratedLesson(g) ==
  [ id |-> g.lessonId, title |-> LessonTitle(g.commit), content |-> Text(g.textLen),
    summary |-> LessonSummary(g.commit), keyConcepts |-> "Git, Version Control, Code Analysis",
    difficultyLevel |-> "intermediate", estimatedReadingTime |-> ReadingTime(g.textLen),
    status |-> "generated" ]

\* setLesson({...}) in loadLesson: a stored field that is falsy gets its default.
LoadedLesson(r) ==
  [ id |-> r.id, title |-> r.title, content |-> r.content, summary |-> r.summary,
    keyConcepts |-> r.keyConcepts, difficultyLevel |-> r.difficultyLevel,
    estimatedReadingTime |-> IF r.estimatedReadingTime = 0 THEN 5 ELSE r.estimatedReadingTime,
    status |-> r.status ]

\* lessons.list({ where: { commitId }, limit: 1 }): no orderBy is given, so the
\* row that comes back is whichever matching row the store puts first.
LessonListResults(commitId) ==
  LET matching == {n \in DOMAIN lessonsDb : lessonsDb[n].commitId = commitId}
  IN IF matching = {} THEN {<<>>} ELSE {<<lessonsDb[n]>> : n \in matching}

\* lessons.list resolves in loadLesson.
LessonListReturns(k, rows) ==
  /\ k \in DOMAIN lessonLoads
  /\ rows \in LessonListResults(lessonLoads[k].commitId)
  /\ UNCHANGED now
  /\ lessonLoads' = RemoveAt(lessonLoads, k)
  /\ lesson' = IF rows = <<>> THEN <<>> ELSE <<LoadedLesson(rows[1])>>
  /\ lessonLoading' = FALSE
  /\ UNCHANGED <<generating, generations>>
  /\ UNCHANGED <<appVars, analyzerVars, viewerVars, toast, dbVars, rngSeed, rngPos, probeVars>>

\* lessons.list rejects in loadLesson: toast, and loading ends.
LessonListFails(k) ==
  /\ k \in DOMAIN lessonLoads
  /\ UNCHANGED now
  /\ lessonLoads' = RemoveAt(lessonLoads, k)
  /\ lessonLoading' = FALSE
  /\ toast' = ToastError
  /\ UNCHANGED <<lesson, generating, generations>>
  /\ UNCHANGED <<appVars, analyzerVars, viewerVars, dbVars, rngSeed, rngPos, probeVars>>

\* A click on Generate or Regenerate (both disabled while generating, both
\* hidden behind the skeleton while loading): generateLesson up to its first
\* await.
GenerateLesson ==
  /\ PanelMounted
  /\ ~lessonLoading
  /\ ~generating
  /\ Len(generations) < MaxGenerations
  /\ generating' = TRUE
  /\ generations' = Append(generations,
       [ pc |-> "files", live |-> TRUE, commit |-> selectedCommit[1], filesContext |-> {},
         textLen |-> 0, lessonId |-> <<>>, wake |-> now + RoundTripMs,
         log |-> <<CallOf("commitFiles.list", <<>>, selectedCommit[1].id)>> ])
  /\ UNCHANGED <<lesson, lessonLoading, lessonLoads>>
  /\ UNCHANGED <<appVars, analyzerVars, viewerVars, toast, dbVars, envVars, probeVars>>

\* commitFiles.list resolves: the prompt is built, generateText is issued.
FilesListReturns(g) ==
  LET gen == generations[g]
      filesData == {r \in commitFilesDb : r.commit_id = gen.commit.id}
  IN /\ gen.pc = "files"
     /\ Due(gen.wake)
     /\ now' = Max(now, gen.wake)
     /\ generations' = [generations EXCEPT
          ![g].pc = "text",
          ![g].filesContext = {[filename |-> r.filename, status |-> r.status, patch |-> r.patch]
                                 : r \in filesData},
          ![g].wake = now' + RoundTripMs,
          ![g].log = Append(@, CallOf("ai.generateText", <<>>, gen.commit.id))]
     /\ UNCHANGED <<lesson, lessonLoading, generating, lessonLoads>>
     /\ UNCHANGED <<appVars, analyzerVars, viewerVars, toast, dbVars, rngSeed, rngPos, probeVars>>

\* generateText resolves with a text of length len: lessons.create is issued.
GenerateTextReturns(g, len) ==
  LET gen == generations[g]
  IN /\ gen.pc = "text"
     /\ Due(gen.wake)
     /\ now' = Max(now, gen.wake)
     /\ generations' = [generations EXCEPT
          ![g].pc = "create", ![g].textLen = len,
          ![g].lessonId = <<"lesson", now', Base36(Rand(rngSeed, rngPos))>>,
          ![g].wake = now' + RoundTripMs,
          ![g].log = Append(@, CallOf("lessons.create",
                                      <<"lesson", now', Base36(Rand(rngSeed, rngPos))>>,
                                      gen.commit.id))]
     /\ rngPos' = rngPos + 1
     /\ UNCHANGED <<lesson, lessonLoading, generating, lessonLoads>>
     /\ UNCHANGED <<appVars, analyzerVars, viewerVars, toast, dbVars, rngSeed, probeVars>>

\* lessons.create resolves: setLesson, the toast, and the finally block.
LessonCreateReturns(g) ==
  LET gen == generations[g]
  IN /\ gen.pc = "create"
     /\ gen.lessonId \notin {lessonsDb[n].id : n \in DOMAIN lessonsDb}
     /\ Due(gen.wake)
     /\ now' = Max(now, gen.wake)
     /\ lessonsDb' = DbCreateLesson(lessonsDb, LessonRecord(gen))
     /\ generations' = [generations EXCEPT ![g].pc = "done"]
     /\ toast' = ToastLessonGenerated
     /\ IF gen.live
        THEN lesson' = <<GeneratedLesson(gen)>> /\ generating' = FALSE
        ELSE UNCHANGED <<lesson, generating>>
     /\ UNCHANGED <<lessonLoading, lessonLoads>>
     /\ UNCHANGED <<appVars, analyzerVars, viewerVars, repositoriesDb, commitsDb, commitFilesDb,
                    rngSeed, rngPos, probeVars>>

\* An awaited call of generateLesson rejects: the toast and the finally block.
GenerationFailsWithoutFinally(g) ==
  LET gen == generations[g]
  IN /\ gen.pc \in {"files", "text", "create"}
     /\ Due(gen.wake)
     /\ now' = Max(now, gen.wake)
     /\ generations' = [generations EXCEPT ![g].pc = "failed"]
     /\ toast' = ToastGenerationFailed
     /\ UNCHANGED <<lesson, lessonLoading, generating, lessonLoads>>
     /\ UNCHANGED <<appVars, analyzerVars, viewerVars, dbVars, rngSeed, rngPos, probeVars>>
GenerationFailsAndRetries(g) ==
  LET gen == generations[g]
  IN /\ gen.pc \in {"files", "text", "create"}
     /\ Due(gen.wake)
     /\ now' = Max(now, gen.wake)
     /\ generations' = [generations EXCEPT ![g].wake = now' + RoundTripMs,
                                           ![g].log = Append(@, gen.log[Len(gen.log)])]
     /\ toast' = ToastGenerationFailed
     /\ UNCHANGED <<lesson, lessonLoading, generating, lessonLoads>>
     /\ UNCHANGED <<appVars, analyzerVars, viewerVars, dbVars, rngSeed, rngPos, probeVars>>
GenerationFails(g) ==
  LET gen == generations[g]
  IN /\ gen.pc \in {"files", "text", "create"}
     /\ Due(gen.wake)
     /\ now' = Max(now, gen.wake)
     /\ generations' = [generations EXCEPT ![g].pc = "failed"]
     /\ toast' = ToastGenerationFailed
     /\ IF gen.live THEN generating' = FALSE ELSE UNCHANGED generating
     /\ UNCHANGED <<lesson, lessonLoading, lessonLoads>>
     /\ UNCHANGED <<appVars, analyzerVars, viewerVars, dbVars, rngSeed, rngPos, probeVars>>

(***************************************************************************)
(* The functions on their own.  A probe holds an input, and an action      *)
(* applies the function to it away from the page: the page's actions act   *)
(* only while no probe is set (PageLive).                                   *)
(***************************************************************************)
PageLive == probePc = "off"
ProbeOff == probeIn = <<>> /\ probeOut = <<>> /\ probePc = "off"

\* A generator input: the stream position (the seed is rngSeed, the clock now)
\* and the commit id handed to simulateCommitFiles when no commit was generated.
GeneratorInputs == [pos : 0..(RandScale - 1), commitId : {<<"commit", 0, 0>>}]

\* simulateCommitData(repo, owner) on the full message pool.
ProbeCommitData ==
  /\ probePc = "generator"
  /\ probeOut' = [commits |-> simulateCommitData(commitMessages, now, rngSeed, probeIn.pos)]
  /\ probePc' = "commits"
  /\ UNCHANGED <<probeIn, appVars, analyzerVars, panelVars, viewerVars, toast, dbVars, envVars>>

\* simulateCommitFiles(commit.id, commit.filesChanged) for commit k of the list
\* just generated, as the loop of analyzeRepository calls it.
ProbeCommitFiles(k) ==
  /\ probePc = "commits"
  /\ k \in DOMAIN probeOut.commits
  /\ LET c == probeOut.commits[k]
         pos == probeIn.pos + CommitDraws * Len(probeOut.commits)
     IN probeOut' = [commitId |-> c.id, filesChanged |-> c.filesChanged,
                     files |-> simulateCommitFiles(c.id, c.filesChanged, now, rngSeed, pos).files]
  /\ probePc' = "files"
  /\ UNCHANGED <<probeIn, appVars, analyzerVars, panelVars, viewerVars, toast, dbVars, envVars>>

\* simulateCommitFiles(commitId, 0): the degenerate input.
ProbeNoFiles ==
  /\ probePc = "generator"
  /\ probeOut' = [commitId |-> probeIn.commitId, filesChanged |-> 0,
                  files |-> simulateCommitFiles(probeIn.commitId, 0, now, rngSeed, probeIn.pos).files]
  /\ probePc' = "files"
  /\ UNCHANGED <<probeIn, appVars, analyzerVars, panelVars, viewerVars, toast, dbVars, envVars>>

(***************************************************************************)
(* The application from page load on.                                      *)
(***************************************************************************)
AppInit ==
  /\ user = None /\ appLoading = TRUE
  /\ repository = <<>> /\ commits = <<>> /\ selectedCommit = <<>>
  /\ commitLoads = <<>> /\ selects = 0
  /\ url = <<>> /\ analyzing = FALSE /\ progress = Pct(0) /\ currentStep = "" /\ error = ""
  /\ intakes = <<>>
  /\ lesson = <<>> /\ lessonLoading = TRUE /\ generating = FALSE
  /\ lessonLoads = <<>> /\ generations = <<>>
  /\ files = {} /\ filesLoading = TRUE /\ selectedFile = <<>> /\ fileLoads = <<>>
  /\ toast = ""
  /\ repositoriesDb = {} /\ commitsDb = {} /\ commitFilesDb = {} /\ lessonsDb = <<>>
  /\ now = 0 /\ rngSeed \in Seeds /\ rngPos = 0

\* The page with the intake, and the generators on their own.
Init ==
  /\ AppInit
  /\ \/ ProbeOff
     \/ probeIn \in GeneratorInputs /\ probeOut = <<>> /\ probePc = "generator"

Next ==
  \/ PageLive /\ \E u \in Users \cup {None} : AuthStateChanged(u)
  \/ PageLive /\ \E u \in SampleUrls : SetUrl(u)
  \/ PageLive /\ AnalyzeRepository
  \/ PageLive /\ \E f \in DOMAIN intakes : MeReturns(f)
  \/ PageLive /\ \E f \in DOMAIN intakes : RepoCreateReturns(f)
  \/ PageLive /\ \E f \in DOMAIN intakes : FetchDelayFires(f)
  \/ PageLive /\ \E f \in DOMAIN intakes : CommitCreateReturns(f)
  \/ PageLive /\ \E f \in DOMAIN intakes : FileCreateReturns(f)
  \/ PageLive /\ \E f \in DOMAIN intakes : RepoUpdateReturns(f)
  \/ PageLive /\ \E f \in DOMAIN intakes : DoneDelayFires(f)
  \/ PageLive /\ \E f \in DOMAIN intakes : IntakeFails(f)
  \/ PageLive /\ \E k \in DOMAIN commitLoads : CommitsListReturns(k)
  \/ PageLive /\ \E k \in DOMAIN commitLoads : CommitsListFails(k)
  \/ ProbeCommitData
  \/ \E k \in 1..CommitCap : ProbeCommitFiles(k)
  \/ ProbeNoFiles

Spec == Init /\ [][Next]_vars

(***************************************************************************)
(* The viewer: the timeline and the Lesson Panel.  A session of the viewer *)
(* is one in which the user who signed in stays signed in, and one intake  *)
(* that no gateway failure stops feeds the timeline.  The loads of the     *)
(* CodeViewer, which shares nothing with the panel but the toast, are      *)
(* issued and answered in NextRecovery.                                    *)
(***************************************************************************)
InitViewer == AppInit /\ ProbeOff

NextViewer ==
  \/ \E u \in Users \cup {None} : (appLoading \/ u # None) /\ AuthStateChanged(u)
  \/ \E u \in SampleUrls : SetUrl(u)
  \/ intakes = <<>> /\ AnalyzeRepository
  \/ \E f \in DOMAIN intakes : MeReturns(f)
  \/ \E f \in DOMAIN intakes : RepoCreateReturns(f)
  \/ \E f \in DOMAIN intakes : FetchDelayFires(f)
  \/ \E f \in DOMAIN intakes : CommitCreateReturns(f)
  \/ \E f \in DOMAIN intakes : FileCreateReturns(f)
  \/ \E f \in DOMAIN intakes : RepoUpdateReturns(f)
  \/ \E f \in DOMAIN intakes : DoneDelayFires(f)
  \/ \E k \in DOMAIN commitLoads : CommitsListReturns(k)
  \/ \E n \in DOMAIN commits : HandleCommitSelect(n)
  \/ \E k \in DOMAIN lessonLoads : \E rows \in LessonListResults(lessonLoads[k].commitId) :
       LessonListReturns(k, rows)
  \/ \E k \in DOMAIN lessonLoads : LessonListFails(k)
  \/ GenerateLesson
  \/ \E g \in DOMAIN generations : FilesListReturns(g)
  \/ \E g \in DOMAIN generations : \E len \in TextLengths : GenerateTextReturns(g, len)
  \/ \E g \in DOMAIN generations : LessonCreateReturns(g)
  \/ \E g \in DOMAIN generations : GenerationFails(g)

SpecViewer == InitViewer /\ [][NextViewer]_vars

(***************************************************************************)
(* The viewer with the CodeViewer's loads answered and with every awaited  *)
(* call free to reject, in a session with one click on Generate, under the *)
(* assumption that what is awaited is answered: a pending gateway call     *)
(* resolves or rejects, a timer fires.                                     *)
(***************************************************************************)
NextRecovery ==
  \/ \E u \in Users \cup {None} : (appLoading \/ u # None) /\ AuthStateChanged(u)
  \/ \E u \in SampleUrls : SetUrl(u)
  \/ intakes = <<>> /\ AnalyzeRepository
  \/ \E f \in DOMAIN intakes : MeReturns(f)
  \/ \E f \in DOMAIN intakes : RepoCreateReturns(f)
  \/ \E f \in DOMAIN intakes : FetchDelayFires(f)
  \/ \E f \in DOMAIN intakes : CommitCreateReturns(f)
  \/ \E f \in DOMAIN intakes : FileCreateReturns(f)
  \/ \E f \in DOMAIN intakes : RepoUpdateReturns(f)
  \/ \E f \in DOMAIN intakes : DoneDelayFires(f)
  \/ \E f \in DOMAIN intakes : IntakeFails(f)
  \/ \E k \in DOMAIN commitLoads : CommitsListReturns(k)
  \/ \E k \in DOMAIN commitLoads : CommitsListFails(k)
  \/ \E n \in DOMAIN commits : HandleCommitSelect(n)
  \/ \E k \in DOMAIN fileLoads : \E first \in FirstFileChoices(fileLoads[k].commitId) :
       CommitFilesListReturns(k, first)
  \/ \E k \in DOMAIN fileLoads : CommitFilesListFails(k)
  \/ \E file \in files : SelectFile(file)
  \/ \E k \in DOMAIN lessonLoads : \E rows \in LessonListResults(lessonLoads[k].commitId) :
       LessonListReturns(k, rows)
  \/ \E k \in DOMAIN lessonLoads : LessonListFails(k)
  \/ generations = <<>> /\ GenerateLesson
  \/ \E g \in DOMAIN generations : FilesListReturns(g)
  \/ \E g \in DOMAIN generations : \E len \in TextLengths : GenerateTextReturns(g, len)
  \/ \E g \in DOMAIN generations : LessonCreateReturns(g)
  \/ \E g \in DOMAIN generations : GenerationFails(g)

\* What a run of analyzeRepository awaits is answered.
IntakeAnswered ==
  \E f \in DOMAIN intakes :
    \/ MeReturns(f) \/ RepoCreateReturns(f) \/ FetchDelayFires(f) \/ CommitCreateReturns(f)
    \/ FileCreateReturns(f) \/ RepoUpdateReturns(f) \/ DoneDelayFires(f) \/ IntakeFails(f)

\* What a run of generateLesson awaits is answered.
GenerationAnswered ==
  \E g \in DOMAIN generations :
    \/ FilesListReturns(g)
    \/ \E len \in TextLengths : GenerateTextReturns(g, len)
    \/ LessonCreateReturns(g)
    \/ GenerationFails(g)

\* A pending lessons.list / commitFiles.list / commits.list is answered.
LessonLoadAnswered ==
  \E k \in DOMAIN lessonLoads :
    \/ \E rows \in LessonListResults(lessonLoads[k].commitId) : LessonListReturns(k, rows)
    \/ LessonListFails(k)
FileLoadAnswered ==
  \E k \in DOMAIN fileLoads :
    \/ \E first \in FirstFileChoices(fileLoads[k].commitId) : CommitFilesListReturns(k, first)
    \/ CommitFilesListFails(k)
CommitLoadAnswered ==
  \E k \in DOMAIN commitLoads : CommitsListReturns(k) \/ CommitsListFails(k)

SpecRecovery ==
  /\ InitViewer
  /\ [][NextRecovery]_vars
  /\ WF_vars(IntakeAnswered)
  /\ WF_vars(GenerationAnswered)
  /\ WF_vars(LessonLoadAnswered)
  /\ WF_vars(FileLoadAnswered)
  /\ WF_vars(CommitLoadAnswered)

(***************************************************************************)
(* The intake page when no gateway call rejects and what a run of          *)
(* analyzeRepository awaits is answered.                                   *)
(***************************************************************************)
\* What a run of analyzeRepository awaits resolves.
IntakeReturns ==
  \E f \in DOMAIN intakes :
    \/ MeReturns(f) \/ RepoCreateReturns(f) \/ FetchDelayFires(f) \/ CommitCreateReturns(f)
    \/ FileCreateReturns(f) \/ RepoUpdateReturns(f) \/ DoneDelayFires(f)

NextCompletion ==
  \/ \E u \in Users \cup {None} : AuthStateChanged(u)
  \/ \E u \in SampleUrls : SetUrl(u)
  \/ AnalyzeRepository
  \/ \E f \in DOMAIN intakes : MeReturns(f)
  \/ \E f \in DOMAIN intakes : RepoCreateReturns(f)
  \/ \E f \in DOMAIN intakes : FetchDelayFires(f)
  \/ \E f \in DOMAIN intakes : CommitCreateReturns(f)
  \/ \E f \in DOMAIN intakes : FileCreateReturns(f)
  \/ \E f \in DOMAIN intakes : RepoUpdateReturns(f)
  \/ \E f \in DOMAIN intakes : DoneDelayFires(f)
  \/ \E k \in DOMAIN commitLoads : CommitsListReturns(k)

SpecCompletion == InitViewer /\ [][NextCompletion]_vars /\ WF_vars(IntakeReturns)

(***************************************************************************)
(* The viewer when a rejected call may end an intake and the user submits  *)
(* again: one run more than on the intake page.                            *)
(***************************************************************************)
NextResubmit ==
  \/ NextViewer
  \/ StartIntake(MaxIntakes + 1)
  \/ \E f \in DOMAIN intakes : IntakeFails(f)

SpecResubmit == InitViewer /\ [][NextResubmit]_vars

(***************************************************************************)
(* The identifiers of one intake on their own: simulateCommitData and then *)
(* one simulateCommitFiles per commit, as the loop of analyzeRepository    *)
(* calls them.  Date.now() at a call is any value not below the one read   *)
(* at the call before: the clock has gone on by 0..MaxClockStep.           *)
(***************************************************************************)
IdsOf(records) == [k \in DOMAIN records |-> records[k].id]

InitIds ==
  /\ AppInit
  /\ probeIn = commitMessages
  /\ probeOut = <<>>
  /\ probePc = "intake"

\* const commits = simulateCommitData(repo, owner)
ProbeIntakeCommits(dt) ==
  /\ probePc = "intake"
  /\ now' = now + dt
  /\ LET cs == simulateCommitData(probeIn, now', rngSeed, rngPos)
     IN /\ probeOut' = [commits |-> cs, i |-> 0, commitIds |-> <<>>, fileIds |-> <<>>]
        /\ rngPos' = rngPos + CommitDraws * Len(cs)
  /\ probePc' = "loop"
  /\ UNCHANGED <<probeIn, appVars, analyzerVars, panelVars, viewerVars, toast, dbVars, rngSeed>>

\* One iteration of the loop: commits.create for commit i, then
\* simulateCommitFiles(commit.id, commit.filesChanged) and one
\* commit_files.create per file.
ProbeIntakeIteration(dt) ==
  /\ probePc = "loop"
  /\ probeOut.i < Len(probeOut.commits)
  /\ now' = now + dt
  /\ LET c == probeOut.commits[probeOut.i + 1]
         sim == simulateCommitFiles(c.id, c.filesChanged, now', rngSeed, rngPos)
     IN /\ probeOut' = [probeOut EXCEPT !.i = @ + 1,
                                        !.commitIds = Append(@, c.id),
                                        !.fileIds = @ \o IdsOf(sim.files)]
        /\ rngPos' = sim.pos
  /\ UNCHANGED <<probeIn, probePc, appVars, analyzerVars, panelVars, viewerVars, toast, dbVars,
                 rngSeed>>

NextIds ==
  \/ \E dt \in 0..MaxClockStep : ProbeIntakeCommits(dt)
  \/ \E dt \in 0..MaxClockStep : ProbeIntakeIteration(dt)

SpecIds == InitIds /\ [][NextIds]_vars

(***************************************************************************)
(* parseGitHubUrl on its own: the input is a prefix followed by up to      *)
(* MaxTailTokens pieces.                                                   *)
(***************************************************************************)
OtherHost == <<":", "/", "/", "g", "i", "t", "l", "a", "b", ".", "c", "o", "m", "/">>
ParsePrefixes ==
  { HttpsScheme \o HostPart, HttpScheme \o HostPart, HttpsScheme \o OtherHost,
    <<"x">> \o HttpsScheme \o HostPart, <<>> }
TailTokens == { <<"a">>, <<"/">>, DotGit, <<"LF">> }

RECURSIVE Tails(_)
Tails(n) ==
  IF n = 0 THEN {<<>>}
  ELSE LET shorter == Tails(n - 1)
       IN shorter \cup {t \o tok : t \in shorter, tok \in TailTokens}

InitParse ==
  /\ AppInit
  /\ rngSeed = CHOOSE sd \in Seeds : TRUE
  /\ probeIn \in {pre \o t : pre \in ParsePrefixes, t \in Tails(MaxTailTokens)}
  /\ probeOut = <<>>
  /\ probePc = "url"

ProbeParse ==
  /\ probePc = "url"
  /\ probeOut' = parseGitHubUrl(probeIn)
  /\ probePc' = "parsed"
  /\ UNCHANGED <<probeIn, appVars, analyzerVars, panelVars, viewerVars, toast, dbVars, envVars>>

NextParse == ProbeParse

SpecParse == InitParse /\ [][NextParse]_vars

(***************************************************************************)
(* formatPatch on its own: the input is any text of up to MaxPatchLen      *)
(* characters, or a patch of each of the three shapes the generator builds. *)
(***************************************************************************)
PatchChars == {"+", "-", "@", " ", "x", "LF"}

RECURSIVE TextsUpTo(_)
TextsUpTo(n) ==
  IF n = 0 THEN {<<>>}
  ELSE LET shorter == TextsUpTo(n - 1)
       IN shorter \cup {Append(t, c) : t \in shorter, c \in PatchChars}

GeneratedPatches ==
  { PatchText(AddedPatch(<<"index", ".js">>, 0, 0)),
    PatchText(DeletedPatch(<<"app", ".ts">>, 50, 50)),
    PatchText(ModifiedPatch(<<"utils", ".css">>, 0, 99, 50, 0)) }

InitPatch ==
  /\ AppInit
  /\ rngSeed = CHOOSE sd \in Seeds : TRUE
  /\ probeIn \in TextsUpTo(MaxPatchLen) \cup GeneratedPatches
  /\ probeOut = <<>>
  /\ probePc = "patch"

ProbeFormatPatch ==
  /\ probePc = "patch"
  /\ probeOut' = formatPatch(probeIn)
  /\ probePc' = "formatted"
  /\ UNCHANGED <<probeIn, appVars, analyzerVars, panelVars, viewerVars, toast, dbVars, envVars>>

NextPatch == ProbeFormatPatch

SpecPatch == InitPatch /\ [][NextPatch]_vars

(***************************************************************************)
(* Properties.                                                             *)
(***************************************************************************)
CommitsOf(repositoryId) == {c \in commitsDb : c.repository_id = repositoryId}

\* C1: every stored Repository with status completed has a total-commit count
\* equal to the number of stored Commits of that repository; a Repository is
\* stored with status analyzing and count 0, and the only change of status a
\* stored Repository ever makes is from analyzing to completed.
C1_CompletedCountsItsCommits ==
  [][ /\ \A r \in repositoriesDb' :
           r.analysis_status = "completed" =>
             r.total_commits = Cardinality({c \in commitsDb' : c.repository_id = r.id})
      /\ \A r \in repositoriesDb' :
           IF r.id \in Ids(repositoriesDb)
           THEN \A o \in repositoriesDb :
                  o.id = r.id =>
                    \/ o.analysis_status = r.analysis_status
                    \/ o.analysis_status = "analyzing" /\ r.analysis_status = "completed"
           ELSE r.analysis_status = "analyzing" /\ r.total_commits = 0
      /\ \A o \in repositoriesDb : o.id \in Ids(repositoriesDb') ]_vars

\* A completed Repository with more than one Commit.
C1_Witness ==
  \E r \in repositoriesDb :
    /\ r.analysis_status = "completed"
    /\ r.total_commits > 1
    /\ Cardinality(CommitsOf(r.id)) = r.total_commits

\* What "of the form <scheme>://github.com/<owner>/<repo> with an optional
\* trailing path" says of u, read off the text and not off the regular
\* expression: every way to cut u into a scheme of the set schemes, the host,
\* a non-empty owner and a non-empty repo without "/", and then nothing or a
\* "/" and a trailing path (any characters when anyTail, otherwise none of
\* them a line terminator).
GithubForms(u, schemes, anyTail) ==
  { [owner |-> SubSeq(u, x[2] + 1, x[3]), repo |-> SubSeq(u, x[3] + 2, x[4])] :
      x \in { y \in {<<sc, Len(sc) + Len(HostPart), a, b>> :
                       sc \in schemes, a \in 1..Len(u), b \in 1..Len(u)} :
                /\ StartsWith(u, y[1] \o HostPart)
                /\ y[2] < y[3] /\ y[3] + 1 < y[4]
                /\ u[y[3] + 1] = "/"
                /\ \A k \in (y[2] + 1)..y[3] : u[k] # "/"
                /\ \A k \in (y[3] + 2)..y[4] : u[k] # "/"
                /\ \/ y[4] = Len(u)
                   \/ /\ u[y[4] + 1] = "/"
                      /\ anyTail \/ \A k \in (y[4] + 2)..Len(u) : u[k] \notin LineTerminators } }

\* r without a ".git" at its end.
WithoutDotGitSuffix(r) ==
  IF \E k \in 0..Len(r) : SubSeq(r, 1, k) \o DotGit = r
  THEN SubSeq(r, 1, Len(r) - Len(DotGit))
  ELSE r

\* What parseGitHubUrl is to return for u when the forms are those of
\* GithubForms(u, schemes, anyTail).
ParseContract(u, out, schemes, anyTail) ==
  LET forms == GithubForms(u, schemes, anyTail)
  IN IF forms = {}
     THEN out = [ok |-> FALSE, message |-> InvalidUrlMessage]
     ELSE \A f \in forms :
            out = [ok |-> TRUE, owner |-> f.owner, repo |-> WithoutDotGitSuffix(f.repo)]

\* C2 as stated: an input https://github.com/<owner>/<repo>, with an optional
\* trailing path and an optional .git suffix, parses to exactly (owner, repo
\* without .git), and every other string fails with the invalid-URL error.
C2_AsStated ==
  probePc = "parsed" => ParseContract(probeIn, probeOut, {HttpsScheme}, TRUE)

\* C2 amended: an input http://github.com/<owner>/<repo> or
\* https://github.com/<owner>/<repo>, followed by nothing or by a "/" and a
\* trailing path that holds no line terminator, parses to exactly (owner, repo
\* without a .git at its end), and every other string fails with the
\* invalid-URL error.
C2_ParsesHttpAndHttps ==
  probePc = "parsed" => ParseContract(probeIn, probeOut, {HttpsScheme, HttpScheme}, FALSE)

\* An https URL with a .git suffix was parsed and the suffix is gone.
C2_Witness ==
  /\ probePc = "parsed"
  /\ StartsWith(probeIn, HttpsScheme \o HostPart)
  /\ EndsWith(probeIn, DotGit)
  /\ probeOut.ok
  /\ probeOut.repo = <<"a">>

\* C3: a submission of a URL that is not of the owner/repo shape ends in the
\* same step with the inline error set: nothing is stored or changed in the
\* store, no gateway call is issued, App's onRepositoryAnalyzed is not called
\* (repository and the pending commit loads stay as they are), no run is left
\* to try again, and no run of analyzeRepository ever exists for such a URL.
C3_InvalidUrlStopsBeforePersistence ==
  [][ /\ (error' = InvalidUrlMessage /\ error # InvalidUrlMessage) =>
           /\ ~GithubRegex(Trim(url)).ok
           /\ dbVars' = dbVars
           /\ intakes' = intakes
           /\ repository' = repository /\ commitLoads' = commitLoads
           /\ ~analyzing' /\ toast' = ToastAnalysisFailed
      /\ \A f \in DOMAIN intakes' : GithubRegex(intakes'[f].url).ok
      /\ \A r \in repositoriesDb' : GithubRegex(r.url).ok ]_vars

\* The inline error of an invalid URL is on screen and nothing was stored.
C3_Witness ==
  /\ AnalyzerMounted
  /\ error = InvalidUrlMessage
  /\ ~GithubRegex(Trim(url)).ok
  /\ ~analyzing
  /\ intakes = <<>>
  /\ repositoriesDb = {}

\* C4: a run of analyzeRepository that a rejected gateway call ended issues no
\* call in the failing step or after it, the failing step leaves the store as
\* it is, the run's Repository (if stored) keeps status analyzing and count 0,
\* the failure toast was raised, and onRepositoryAnalyzed was not called.
C4_FailureAbortsTheIntake ==
  [][ \A f \in DOMAIN intakes' :
        intakes'[f].pc = "failed" =>
          /\ intakes'[f].log = intakes[f].log
          /\ intakes'[f].callbacks = 0
          /\ intakes'[f].toast = ToastAnalysisFailed
          /\ intakes[f].pc # "failed" => dbVars' = dbVars /\ toast' = ToastAnalysisFailed
          /\ \A r \in repositoriesDb' :
               r.id = intakes'[f].repositoryId =>
                 r.analysis_status = "analyzing" /\ r.total_commits = 0
          /\ \A c \in commitsDb : c.repository_id = intakes'[f].repositoryId => c \in commitsDb'
          /\ \A x \in commitFilesDb : x \in commitFilesDb' ]_vars

\* A run failed after some of its commits and files were stored.
C4_Witness ==
  \E f \in DOMAIN intakes :
    /\ intakes[f].pc = "failed"
    /\ \E r \in repositoriesDb : r.id = intakes[f].repositoryId /\ r.analysis_status = "analyzing"
    /\ \E c \in commitsDb : c.repository_id = intakes[f].repositoryId
    /\ commitFilesDb # {}

\* The order indices of a list of generated commits are 1..N in list order.
OrdersAreOneToN(cs) == \A k \in DOMAIN cs : cs[k].commitOrder = k

\* C5: a call of simulateCommitData returns at most 10 commits whose order
\* indices are 1..N in list order, on the full message pool and in every run
\* of analyzeRepository; and the stored Commits of a completed Repository have
\* pairwise different order indices that are exactly 1..N.
C5_OrderIndicesAreOneToN ==
  /\ probePc = "commits" =>
       /\ Len(probeOut.commits) <= 10
       /\ OrdersAreOneToN(probeOut.commits)
  /\ \A f \in DOMAIN intakes :
       Len(intakes[f].commits) <= 10 /\ OrdersAreOneToN(intakes[f].commits)
  /\ \A r \in repositoriesDb :
       r.analysis_status = "completed" =>
         /\ {c.commit_order : c \in CommitsOf(r.id)} = 1..Cardinality(CommitsOf(r.id))
         /\ \A c, d \in CommitsOf(r.id) : c.commit_order = d.commit_order => c = d

\* The generator was called on the pool of 15 messages and returned 10 commits.
C5_Witness ==
  /\ probePc = "commits"
  /\ Len(commitMessages) > 10
  /\ Len(probeOut.commits) = 10
  /\ probeOut.commits[10].commitOrder = 10

\* The commit_files.create calls run f issued for commit id.
FileCreatesFor(f, id) ==
  {n \in DOMAIN intakes[f].log :
     intakes[f].log[n].op = "commit_files.create" /\ intakes[f].log[n].of = id}

\* C6: simulateCommitFiles returns exactly filesChanged records, each carrying
\* the commit id it was given, for every generated commit and for
\* filesChanged = 0 (an empty list); and once a run of analyzeRepository has
\* completed its Repository, the number of commit_files.create calls it issued
\* for each of its commits is that commit's stored files_changed.
C6_FilesMatchFilesChanged ==
  /\ probePc = "files" =>
       /\ Len(probeOut.files) = probeOut.filesChanged
       /\ \A k \in DOMAIN probeOut.files : probeOut.files[k].commitId = probeOut.commitId
  /\ \A f \in DOMAIN intakes :
       intakes[f].pc \in {"doneDelay", "done"} =>
         \A c \in CommitsOf(intakes[f].repositoryId) :
           Cardinality(FileCreatesFor(f, c.id)) = c.files_changed

\* The file generator returned the ten files of a generated commit.
C6_Witness ==
  /\ probePc = "files"
  /\ probeOut.filesChanged = 10
  /\ Len(probeOut.files) = 10

\* A generated file keeps the rule of its status.
StatusRule(file) ==
  /\ file.status \in {"added", "modified", "deleted"}
  /\ file.status = "added" => file.deletions = 0
  /\ file.status = "deleted" => file.additions = 0

\* C7: every file simulateCommitFiles generates has a status among added,
\* modified and deleted, deletions = 0 when added and additions = 0 when
\* deleted: at every position of the random stream, in every run of
\* analyzeRepository and in every stored CommitFile.
C7_StatusDecidesTheCounts ==
  /\ probePc = "files" => \A k \in DOMAIN probeOut.files : StatusRule(probeOut.files[k])
  /\ \A f \in DOMAIN intakes : \A k \in DOMAIN intakes[f].files : StatusRule(intakes[f].files[k])
  /\ \A x \in commitFilesDb : StatusRule(x)

\* One call returned files of all three statuses.
C7_Witness ==
  /\ probePc = "files"
  /\ {probeOut.files[k].status : k \in DOMAIN probeOut.files} = {"added", "modified", "deleted"}
  /\ \E k \in DOMAIN probeOut.files :
       probeOut.files[k].status = "added" /\ probeOut.files[k].additions > 0

\* The positions in lessons of the Lessons of commit id.
LessonsOf(id) == {n \in DOMAIN lessonsDb : lessonsDb[n].commitId = id}

\* C8: a step in which a run of generateLesson succeeds adds exactly one
\* Lesson, owned by the run's commit; every step keeps the Lessons stored
\* before it as they are and in place, and the store gains a Lesson only in
\* such a step; so a second generation for a commit leaves two Lessons.
C8_GenerationAddsOneLesson ==
  [][ /\ Len(lessonsDb') >= Len(lessonsDb)
      /\ SubSeq(lessonsDb', 1, Len(lessonsDb)) = lessonsDb
      /\ \A g \in DOMAIN generations :
           (generations[g].pc # "done" /\ generations'[g].pc = "done") =>
             /\ Len(lessonsDb') = Len(lessonsDb) + 1
             /\ lessonsDb'[Len(lessonsDb')].commitId = generations[g].commit.id
             /\ lessonsDb'[Len(lessonsDb')].id \notin {lessonsDb[n].id : n \in DOMAIN lessonsDb}
      /\ Len(lessonsDb') > Len(lessonsDb) =>
           /\ Len(lessonsDb') = Len(lessonsDb) + 1
           /\ \E g \in DOMAIN generations :
                generations[g].pc # "done" /\ generations'[g].pc = "done" ]_vars

\* A commit was regenerated: it has two Lessons, the first one as it was.
C8_Witness ==
  /\ Len(lessonsDb) = 2
  /\ lessonsDb[1].commitId = lessonsDb[2].commitId
  /\ lessonsDb[1].id # lessonsDb[2].id
  /\ \A g \in DOMAIN generations : generations[g].pc = "done"

\* C9 as stated: whenever the panel shows a Lesson of a commit that has several
\* stored Lessons, the one shown is the one created last.
C9_PanelShowsTheNewestLesson ==
  (PanelMounted /\ ~lessonLoading /\ lesson # <<>>) =>
    \A n \in DOMAIN lessonsDb :
      (lessonsDb[n].id = lesson[1].id /\ Cardinality(LessonsOf(lessonsDb[n].commitId)) > 1) =>
        \A m \in LessonsOf(lessonsDb[n].commitId) : m <= n

\* C10 as stated: while the user is none, before and after a step, the step
\* starts no run of analyzeRepository or generateLesson, and no run issues a
\* persistence or text-generation call in it (the only other call, auth.me,
\* opens a run's log), and no commits.list or lessons.list call is issued.
C10_NoGatewayCallWhileSignedOut ==
  [][ (user = None /\ user' = None) =>
        /\ Len(intakes') = Len(intakes)
        /\ \A f \in DOMAIN intakes : intakes'[f].log = intakes[f].log
        /\ Len(generations') = Len(generations)
        /\ \A g \in DOMAIN generations : generations'[g].log = generations[g].log
        /\ Len(commitLoads') <= Len(commitLoads)
        /\ Len(lessonLoads') <= Len(lessonLoads) ]_vars

\* The create call c, issued by a run of analyzeRepository, has completed when
\* its record is in the store (repos, cs and fs being the three tables).
CreateCompleted(c, repos, cs, fs) ==
  CASE c.op = "repositories.create" -> c.id \in Ids(repos)
    [] c.op = "commits.create" -> c.id \in Ids(cs)
    [] c.op = "commit_files.create" -> c.id \in Ids(fs)
    [] OTHER -> TRUE

\* The positions of the calls of operation op in a log.
CallsOf(log, op) == {n \in DOMAIN log : log[n].op = op}

\* C11: a step adds at most one call to the log of a run of analyzeRepository,
\* and when it adds one every create call the run issued before has completed
\* (one call in flight at a time); the k-th commits.create of a run is for the
\* k-th generated commit; a commit_files.create for a commit is issued after
\* the commits.create of that commit and before the commits.create of the
\* next one; and when repositories.update is issued every generated commit and
\* files_changed files of each are stored.
C11_IntakeCallsAreSequential ==
  [][ \A f \in DOMAIN intakes :
        LET old == intakes[f].log
            new == intakes'[f].log
            cs == intakes'[f].commits
        IN /\ Len(new) <= Len(old) + 1
           /\ SubSeq(new, 1, Len(old)) = old
           /\ Len(new) = Len(old) + 1 =>
                /\ \A n \in DOMAIN old :
                     CreateCompleted(old[n], repositoriesDb', commitsDb', commitFilesDb')
                /\ LET c == new[Len(new)]
                   IN /\ c.op = "commits.create" =>
                           /\ Cardinality(CallsOf(new, "commits.create")) <= Len(cs)
                           /\ c.id = cs[Cardinality(CallsOf(new, "commits.create"))].id
                      /\ c.op = "commit_files.create" =>
                           \E n \in CallsOf(old, "commits.create") :
                             /\ old[n].id = c.of
                             /\ \A m \in CallsOf(old, "commits.create") : m <= n
                      /\ c.op = "repositories.update" =>
                           /\ Cardinality(CallsOf(old, "commits.create")) = Len(cs)
                           /\ \A k \in DOMAIN cs :
                                /\ cs[k].id \in Ids(commitsDb')
                                /\ Cardinality({x \in commitFilesDb' : x.commit_id = cs[k].id})
                                     = cs[k].filesChanged ]_vars

\* A run issued repositories.update after two commits.create, one of them
\* followed by several commit_files.create.
C11_Witness ==
  \E f \in DOMAIN intakes :
    /\ CallsOf(intakes[f].log, "repositories.update") # {}
    /\ Cardinality(CallsOf(intakes[f].log, "commits.create")) = 2
    /\ \E c \in commitsDb : Cardinality(FileCreatesFor(f, c.id)) > 1

\* C12: in every reachable state every stored CommitFile names a stored
\* Commit and every stored Commit names a stored Repository, whether the runs
\* of analyzeRepository are under way, completed, or ended by a rejected call.
C12_StoredRecordsHaveTheirOwner ==
  /\ \A x \in commitFilesDb : x.commit_id \in Ids(commitsDb)
  /\ \A c \in commitsDb : c.repository_id \in Ids(repositoriesDb)

\* A rejected commit_files.create ended a run that had stored files already.
C12_Witness ==
  \E f \in DOMAIN intakes :
    /\ intakes[f].pc = "failed"
    /\ intakes[f].log[Len(intakes[f].log)].op = "commit_files.create"
    /\ \E x \in commitFilesDb : \E c \in commitsDb :
         x.commit_id = c.id /\ c.repository_id = intakes[f].repositoryId

\* C13: a rejected gateway call gives the screen back in the step that
\* handles it: a live run of analyzeRepository that fails leaves analyzing
\* false and the submit button enabled (the url is kept), a live run of
\* generateLesson that fails leaves generating false, a lessons.list or
\* commitFiles.list that fails leaves the loading flag of its component
\* false; and, what is awaited being answered, analyzing, generating and the
\* two loading flags of the components on screen never stay true for ever.
C13_ErrorsGiveTheScreenBack ==
  /\ [][ /\ \A f \in DOMAIN intakes :
              (intakes[f].pc # "failed" /\ intakes'[f].pc = "failed" /\ intakes'[f].live) =>
                ~analyzing' /\ AnalyzerMounted' /\ url' = url /\ Trim(url') # <<>>
         /\ \A g \in DOMAIN generations :
              (generations[g].pc # "failed" /\ generations'[g].pc = "failed" /\ generations'[g].live) =>
                ~generating'
         /\ (toast' = ToastError /\ Len(lessonLoads') < Len(lessonLoads)) => ~lessonLoading'
         /\ (toast' = ToastError /\ Len(fileLoads') < Len(fileLoads)) => ~filesLoading' ]_vars
  /\ analyzing ~> ~analyzing
  /\ generating ~> ~generating
  /\ (PanelMounted /\ lessonLoading) ~> ~lessonLoading
  /\ (PanelMounted /\ filesLoading) ~> ~filesLoading

\* A generation and a load of each kind were rejected, and nothing is busy.
C13_Witness ==
  /\ PanelMounted
  /\ \E g \in DOMAIN generations : generations[g].pc = "failed"
  /\ toast = ToastError
  /\ ~generating /\ ~lessonLoading /\ ~filesLoading /\ ~analyzing

\* A log grows by calls it does not hold yet, if it grows: it goes from old
\* to new by nothing, or by one call that is not in old.
GrowsWithoutRepeat(old, new) ==
  \/ new = old
  \/ /\ new = Append(old, new[Len(new)])
     /\ \A n \in DOMAIN old : old[n] # new[Len(new)]

\* C14: a run of analyzeRepository or of generateLesson starts with one call
\* and never issues a call it has issued before (one auth.me, one
\* repositories.create, one create per commit and per file, one update; one
\* commitFiles.list, one generateText, one lessons.create), a run that has
\* ended issues nothing more, and a step in which commitFiles.list or
\* generateText of a run of generateLesson is rejected leaves the stored
\* Lessons and the Lesson on screen as they are; the store holds as many
\* Lessons as runs of generateLesson have succeeded.
C14_NoCallIsRepeated ==
  [][ /\ \A f \in DOMAIN intakes' :
           IF f \in DOMAIN intakes
           THEN /\ GrowsWithoutRepeat(intakes[f].log, intakes'[f].log)
                /\ intakes[f].pc \in {"done", "failed"} => intakes'[f].log = intakes[f].log
           ELSE Len(intakes'[f].log) = 1
      /\ \A g \in DOMAIN generations' :
           /\ IF g \in DOMAIN generations
              THEN GrowsWithoutRepeat(generations[g].log, generations'[g].log)
              ELSE Len(generations'[g].log) = 1
           /\ \A op \in {"commitFiles.list", "ai.generateText", "lessons.create"} :
                Cardinality(CallsOf(generations'[g].log, op)) <= 1
      /\ \A g \in DOMAIN generations :
           /\ generations[g].pc \in {"done", "failed"} => generations'[g].log = generations[g].log
           /\ (generations[g].pc \in {"files", "text"} /\ generations'[g].pc = "failed") =>
                /\ lessonsDb' = lessonsDb
                /\ lesson' = lesson
                /\ CallsOf(generations'[g].log, "lessons.create") = {}
      /\ Len(lessonsDb') = Cardinality({g \in DOMAIN generations' : generations'[g].pc = "done"}) ]_vars

\* A second generation for a commit was rejected at generateText: the Lesson
\* of the first one is still the one on screen and the only one stored.
C14_Witness ==
  /\ Len(generations) = 2
  /\ generations[1].pc = "done"
  /\ generations[2].pc = "failed"
  /\ generations[2].log[Len(generations[2].log)].op = "ai.generateText"
  /\ generations[2].live
  /\ lesson = <<GeneratedLesson(generations[1])>>
  /\ Len(lessonsDb) = 1

\* C15: every step keeps every stored Commit and CommitFile as it is, and
\* keeps every stored Repository or changes nothing of it but total_commits
\* and analysis_status, and that only in the step in which the
\* repositories.update of the run that created it resolves; a run issues at
\* most one repositories.update, for its own Repository, and no two stored
\* records of a table share an id.
C15_OnlyTheIntakeUpdatesItsRepository ==
  [][ /\ commitsDb \subseteq commitsDb'
      /\ commitFilesDb \subseteq commitFilesDb'
      /\ \A o \in repositoriesDb :
           \E r \in repositoriesDb' :
             /\ r.id = o.id
             /\ r = [o EXCEPT !.total_commits = r.total_commits,
                              !.analysis_status = r.analysis_status]
             /\ r # o =>
                  \E f \in DOMAIN intakes :
                    /\ intakes[f].repositoryId = o.id
                    /\ intakes[f].pc = "repoUpdate" /\ intakes'[f].pc = "doneDelay"
                    /\ intakes[f].log[Len(intakes[f].log)] =
                         CallOf("repositories.update", o.id, <<>>)
      /\ \A f \in DOMAIN intakes' :
           /\ Cardinality(CallsOf(intakes'[f].log, "repositories.update")) <= 1
           /\ \A n \in CallsOf(intakes'[f].log, "repositories.update") :
                intakes'[f].log[n].id = intakes'[f].repositoryId
      /\ Cardinality(Ids(repositoriesDb')) = Cardinality(repositoriesDb')
      /\ Cardinality(Ids(commitsDb')) = Cardinality(commitsDb')
      /\ Cardinality(Ids(commitFilesDb')) = Cardinality(commitFilesDb') ]_vars

\* The update of a run has resolved: its Repository is completed and is, but
\* for count and status, the record the run created.
C15_Witness ==
  \E f \in DOMAIN intakes :
    /\ intakes[f].pc = "doneDelay"
    /\ DbUpdateRepository({RepositoryRecord(intakes[f], intakes[f].userId)},
                          intakes[f].repositoryId, 2, "completed") = repositoriesDb
    /\ commitsDb # {} /\ commitFilesDb # {}

\* The number of line feeds in a text.
LineFeeds(t) == Cardinality({k \in DOMAIN t : t[k] = "LF"})

\* The class the rule of the classifier gives a line, read character by
\* character: header for +++ and ---, hunk for @@, addition for any other
\* line that begins with +, deletion for any other that begins with -,
\* context for the rest.
ClassByRule(line) ==
  LET at(k) == IF k <= Len(line) THEN line[k] ELSE ""
  IN CASE at(1) = "+" /\ at(2) = "+" /\ at(3) = "+" -> ClassHeader
       [] at(1) = "-" /\ at(2) = "-" /\ at(3) = "-" -> ClassHeader
       [] at(1) = "@" /\ at(2) = "@" -> ClassHunk
       [] at(1) = "+" /\ ~(at(2) = "+" /\ at(3) = "+") -> ClassAddition
       [] at(1) = "-" /\ ~(at(2) = "-" /\ at(3) = "-") -> ClassDeletion
       [] OTHER -> ClassContext

\* C16: formatPatch returns one entry per line of a non-empty patch (none for
\* the empty patch), the entries numbered from 0 in the order of the lines and
\* carrying the lines unchanged (their originalLine joined by line feeds is
\* the patch), each with the class the rule gives its line; the patch it was
\* given is what it was.
C16_PatchLinesAreClassifiedInOrder ==
  probePc = "formatted" =>
    /\ Len(probeOut) = IF probeIn = <<>> THEN 0 ELSE LineFeeds(probeIn) + 1
    /\ PatchText([n \in DOMAIN probeOut |-> probeOut[n].originalLine]) = probeIn
    /\ \A n \in DOMAIN probeOut :
         /\ probeOut[n].id = n - 1
         /\ \A k \in DOMAIN probeOut[n].originalLine : probeOut[n].originalLine[k] # "LF"
         /\ probeOut[n].className = ClassByRule(probeOut[n].originalLine)
         /\ probeOut[n].prefix \o probeOut[n].content = probeOut[n].originalLine

\* The patch of a modified file was classified: header, header, hunk,
\* deletion, addition.
C16_Witness ==
  /\ probePc = "formatted"
  /\ probeIn = PatchText(ModifiedPatch(<<"utils", ".css">>, 0, 99, 50, 0))
  /\ [n \in DOMAIN probeOut |-> probeOut[n].className]
       = <<ClassHeader, ClassHeader, ClassHunk, ClassDeletion, ClassAddition>>

\* C17 as stated: called on the pool of 15 messages, simulateCommitData
\* returns commits that carry the last 10 messages of the pool in pool order,
\* the commit of the highest order index carrying the last message of the pool.
C17_KeepsTheLastTenMessages ==
  probePc = "commits" =>
    LET out == probeOut.commits
        dropped == Len(commitMessages) - Len(out)
    IN /\ \A k \in DOMAIN out : out[k].message = commitMessages[dropped + k]
       /\ out[Len(out)].message = commitMessages[Len(commitMessages)]

\* The instant of a generated date, and the clock value its commit was
\* generated at (the one its id was built from).
InstantOf(date) == date[2]
GeneratedAt(c) == c.id[2]

\* The dates of a list of generated commits go up by one day per order index
\* and all lie before the time of generation.
DatesStepByOneDay(cs) ==
  /\ \A k \in DOMAIN cs : InstantOf(cs[k].date) < GeneratedAt(cs[k])
  /\ \A k \in DOMAIN cs :
       k < Len(cs) => InstantOf(cs[k + 1].date) - InstantOf(cs[k].date) = DayMs
  /\ \A j, k \in DOMAIN cs :
       cs[j].commitOrder < cs[k].commitOrder => InstantOf(cs[j].date) < InstantOf(cs[k].date)

\* C18: in every list simulateCommitData returns (on the full pool of
\* messages, and in every run of analyzeRepository) the dates of consecutive
\* order indices are one day apart, the dates go up with the order index, and
\* every date lies before the time of generation; the stored Commits carry
\* those dates.
C18_DatesAreOneDayApart ==
  /\ probePc = "commits" => DatesStepByOneDay(probeOut.commits)
  /\ \A f \in DOMAIN intakes :
       /\ DatesStepByOneDay(intakes[f].commits)
       /\ \A c \in CommitsOf(intakes[f].repositoryId) :
            \E k \in DOMAIN intakes[f].commits :
              intakes[f].commits[k].id = c.id /\ intakes[f].commits[k].date = c.date

\* The generator returned ten commits: the first dated 15 days back, the
\* last 6 days back.
C18_Witness ==
  /\ probePc = "commits"
  /\ Len(probeOut.commits) = 10
  /\ probeOut.commits[1].date = ToISOString(now - 15 * DayMs)
  /\ probeOut.commits[10].date = ToISOString(now - 6 * DayMs)

\* The call run f awaits cannot resolve, only reject: auth.me() with nobody
\* signed in, a create of an id that is stored, an update of a Repository
\* that is not.
CanOnlyReject(f) ==
  LET fl == intakes[f]
  IN \/ fl.pc = "me" /\ user = None
     \/ fl.pc = "repoCreate" /\ fl.repositoryId \in Ids(repositoriesDb)
     \/ fl.pc = "commitCreate" /\ fl.commits[fl.i + 1].id \in Ids(commitsDb)
     \/ fl.pc = "fileCreate" /\ fl.files[fl.j].id \in Ids(commitFilesDb)
     \/ fl.pc = "repoUpdate" /\ fl.repositoryId \notin Ids(repositoriesDb)

\* C19: when no gateway call rejects and what is awaited is answered, every
\* run of analyzeRepository (one exists only for a URL that parses) comes to
\* its end unless the call some run awaits can only reject; a run calls
\* onRepositoryAnalyzed at most once, and the step in which it does finds its
\* Repository stored as completed with the count of the generated commits and
\* hands App a Repository that is completed with that count; a run that has
\* ended has called it once.
C19_IntakeCompletesAndCallsBackOnce ==
  /\ [][ \A f \in DOMAIN intakes' :
           /\ intakes'[f].callbacks <= 1
           /\ GithubRegex(intakes'[f].url).ok
           /\ intakes'[f].pc = "done" <=> intakes'[f].callbacks = 1
           /\ (f \in DOMAIN intakes /\ intakes[f].callbacks = 0 /\ intakes'[f].callbacks = 1) =>
                /\ \E r \in repositoriesDb :
                     /\ r.id = intakes[f].repositoryId
                     /\ r.analysis_status = "completed"
                     /\ r.total_commits = Len(intakes[f].commits)
                     /\ Cardinality(CommitsOf(r.id)) = Len(intakes[f].commits)
                /\ repository' # <<>>
                /\ repository'[1].id = intakes[f].repositoryId
                /\ repository'[1].analysisStatus = "completed"
                /\ repository'[1].totalCommits = Len(intakes[f].commits) ]_vars
  /\ \A f \in 1..MaxIntakes :
       (f \in DOMAIN intakes)
         ~> \/ f \in DOMAIN intakes /\ intakes[f].pc = "done"
            \/ \E h \in DOMAIN intakes : CanOnlyReject(h)

\* A run came to its end after the user had signed out: it has called back
\* once and App holds its completed Repository of two commits.
C19_Witness ==
  \E f \in DOMAIN intakes :
    /\ intakes[f].pc = "done"
    /\ intakes[f].callbacks = 1
    /\ ~intakes[f].live
    /\ repository # <<>>
    /\ repository[1].totalCommits = 2
    /\ \E r \in repositoriesDb : r.id = repository[1].id /\ r.analysis_status = "completed"

\* C20 as stated: whenever the Lesson Panel is on screen, is not loading and
\* holds a Lesson, that Lesson is a stored Lesson of the selected commit.
C20_ShownLessonIsOfTheSelectedCommit ==
  (PanelMounted /\ ~lessonLoading /\ lesson # <<>>) =>
    \E n \in DOMAIN lessonsDb :
      lessonsDb[n].id = lesson[1].id /\ lessonsDb[n].commitId = selectedCommit[1].id

\* The formatted files of the selected commit.
FilesOfSelected == FormattedFilesOf(selectedCommit[1].id)

\* C21 as stated: whenever the CodeViewer is on screen and not loading, its
\* files are the stored files of the selected commit and its selected file,
\* if any, is one of them.
C21_ShownFilesAreOfTheSelectedCommit ==
  (PanelMounted /\ ~filesLoading) =>
    /\ files \subseteq FilesOfSelected
    /\ selectedFile # <<>> => selectedFile[1] \in FilesOfSelected

\* C22: in every state App's commits are in ascending order index, each the
\* formatted record of a stored Commit of one repository, and the selected
\* commit is none or one of them; a step that loads commits leaves the first
\* of them (the lowest order index) selected.
C22_TimelineIsAscendingAndSelectionIsAMember ==
  [][ /\ \A j, k \in DOMAIN commits' : j < k => commits'[j].commitOrder < commits'[k].commitOrder
      /\ \A k \in DOMAIN commits' :
           \E c \in commitsDb' :
             /\ FormatCommit(c) = commits'[k]
             /\ \A j \in DOMAIN commits' :
                  \E d \in commitsDb' : d.id = commits'[j].id /\ d.repository_id = c.repository_id
      /\ selectedCommit' = <<>> \/ \E k \in DOMAIN commits' : selectedCommit' = <<commits'[k]>>
      /\ Len(commitLoads') < Len(commitLoads) /\ commits' # <<>> =>
           /\ selectedCommit' = <<commits'[1]>>
           /\ \A k \in DOMAIN commits' : commits'[1].commitOrder <= commits'[k].commitOrder ]_vars

\* The loaded commits are in order and the user has selected the second.
C22_Witness ==
  /\ Len(commits) = 2
  /\ commits[1].commitOrder = 1 /\ commits[2].commitOrder = 2
  /\ selectedCommit = <<commits[2]>>
  /\ commitLoads = <<>>

InFlightIntakes(runs) ==
  {f \in DOMAIN runs : runs[f].live /\ runs[f].pc \notin {"done", "failed"}}
InFlightGenerations(runs) ==
  {g \in DOMAIN runs : runs[g].live /\ runs[g].pc \notin {"done", "failed"}}
CreatesOf(fl) == Cardinality(CallsOf(fl.log, "repositories.create"))

\* C23: in one analyzer at most one run of analyzeRepository is in flight, and
\* analyzing is true while it is; a run starts only when analyzing is false
\* and no run of the analyzer is in flight; a run issues repositories.create
\* as its second call, once, when auth.me() has resolved, and never when
\* auth.me() rejected, so a run that completed issued exactly one; in one
\* Lesson Panel at most one run of generateLesson is in flight, generating is
\* true while it is, and a run starts only when generating is false.
C23_OneRunInFlightPerComponent ==
  [][ /\ Cardinality(InFlightIntakes(intakes')) <= 1
      /\ InFlightIntakes(intakes') # {} => analyzing'
      /\ Len(intakes') > Len(intakes) => ~analyzing /\ InFlightIntakes(intakes) = {}
      /\ \A f \in DOMAIN intakes' :
           LET fl == intakes'[f]
           IN /\ CreatesOf(fl) = IF Len(fl.log) > 1 THEN 1 ELSE 0
              /\ Len(fl.log) > 1 => fl.log[2].op = "repositories.create"
              /\ Len(fl.log) > 1 <=> fl.userId # None
              /\ fl.pc = "done" => CreatesOf(fl) = 1
      /\ Cardinality(InFlightGenerations(generations')) <= 1
      /\ InFlightGenerations(generations') # {} => generating'
      /\ Len(generations') > Len(generations) =>
           ~generating /\ InFlightGenerations(generations) = {} ]_vars

\* C23 as stated: every run of analyzeRepository that ended has issued exactly
\* one repositories.create, with at most one intake and one generation in
\* flight.
C23_EveryIntakeCreatesOneRepository ==
  /\ Cardinality(InFlightIntakes(intakes)) <= 1
  /\ Cardinality(InFlightGenerations(generations)) <= 1
  /\ \A f \in DOMAIN intakes :
       intakes[f].pc \in {"done", "failed"} => CreatesOf(intakes[f]) = 1

\* A second submission after the first one ended at a rejected auth.me(), and
\* a second generation in flight after the first one ended.
C23_Witness ==
  /\ Len(intakes) = 2
  /\ intakes[1].pc = "failed" /\ CreatesOf(intakes[1]) = 0
  /\ intakes[2].pc = "done" /\ CreatesOf(intakes[2]) = 1
  /\ Len(generations) = 2
  /\ generations[1].pc \in {"done", "failed"}
  /\ InFlightGenerations(generations) = {2}
  /\ generating


PairwiseDistinct(ids) == \A j, k \in DOMAIN ids : j # k => ids[j] # ids[k]

\* C24: within one intake the identifiers passed to commits.create are
\* pairwise distinct and the identifiers passed to commit_files.create are
\* pairwise distinct, across all commits of the intake, the clock being
\* non-decreasing and possibly equal between two calls.
C24_IdentifiersOfAnIntakeAreDistinct ==
  probePc = "loop" =>
    /\ PairwiseDistinct(probeOut.commitIds)
    /\ PairwiseDistinct(probeOut.fileIds)


\* Progress values are fractions: p is at most q.
ProgressLeq(p, q) == p.num * q.den <= q.num * p.den

\* C25: the analyzer's progress is within 0..100; it does not decrease over a
\* step during which a run of the analyzer stays in flight, and a run starts
\* from 0; it is 100 only while a run waits after its repositories.update to
\* 'completed' has succeeded; when a run of the analyzer ends, completed or
\* failed, and whenever no run of the analyzer is in flight, the progress is 0
\* and the step label is empty.
C25_ProgressIsBoundedMonotoneAndReset ==
  [][ /\ progress'.den > 0
      /\ ProgressLeq(Pct(0), progress') /\ ProgressLeq(progress', Pct(100))
      /\ \A f \in InFlightIntakes(intakes) :
           f \in InFlightIntakes(intakes') => ProgressLeq(progress, progress')
      /\ Len(intakes') > Len(intakes) => progress = Pct(0) /\ currentStep = ""
      /\ ProgressLeq(Pct(100), progress') =>
           \E f \in InFlightIntakes(intakes') :
             /\ intakes'[f].pc = "doneDelay"
             /\ \E r \in repositoriesDb' :
                  r.id = intakes'[f].repositoryId /\ r.analysis_status = "completed"
      /\ \A f \in InFlightIntakes(intakes) :
           intakes'[f].pc \in {"done", "failed"} => progress' = Pct(0) /\ currentStep' = ""
      /\ InFlightIntakes(intakes') = {} => progress' = Pct(0) /\ currentStep' = "" ]_vars

\* A second run of the analyzer, after one that failed, stands at 100.
C25_Witness ==
  /\ Len(intakes) = 2
  /\ intakes[1].pc = "failed"
  /\ intakes[2].pc = "doneDelay" /\ intakes[2].live
  /\ progress = Pct(100)
  /\ currentStep = StepComplete

====
